---- MODULE Spec2Model ----
(***************************************************************************)
(* Verification model of the rubber-duck assistant: the preemption state   *)
(* (preemption.py), the foreground message path (bot.py), the background   *)
(* perch tick (perch.py), the message handlers (handlers/conversation.py), *)
(* the tool-calling loops and the journal context window (agent/loop.py)   *)
(* and tool dispatch (agent/tools.py).                                     *)
(***************************************************************************)
EXTENDS Integers, Sequences, FiniteSets, TLC

VARIABLES
    bot_state,   \* preemption.py _state: the process-wide BotState
    now,         \* wall clock, in seconds
    last_op,     \* name of the last preemption operation called
    last_ret,    \* its return value ("none" when it returns nothing)
    last_desc,   \* the description given to the latest start_work call
    perch_pc,    \* where perch_tick is suspended ("idle": no tick running)
    fg_pc,       \* per owner message: where on_message is suspended
    fg_polls,    \* per owner message: iterations of the wait-for-idle loop done
    yield_seen,  \* what the latest yield check of perch_tick returned
    req_in_tick, \* request_preempt was called since the running tick's start_work
    handoff,     \* "yielded" once a tick yields to a pending request, "resumed"
                 \* once the waiter has seen idle after it
    perch_started, \* when the running tick called start_work
    use_claude_code, \* conversation.py USE_CLAUDE_CODE
    active_sessions, \* conversation.py _active_sessions: channel id -> session
    sess_pc,     \* per owner message: where handle_message is suspended
    nudge_pc,    \* per scheduled nudge: where send_nudge is suspended
    journal,     \* the lines of state/journal.jsonl
    journal_exists, \* whether the journal file exists
    context,     \* None before the call, Some(what _get_recent_context returned)
    loop_mode,   \* "plain": run_agent_loop, "interactive": run_agent_loop_interactive
    has_checkpoint, \* callbacks.on_checkpoint is given
    max_tools,   \* the budget selected for the invocation
    loop_pc,     \* where the invocation is suspended, or how it ended
    tool_calls,  \* the tool-call counter
    model_calls, \* client.messages.create calls issued so far
    text_blocks, \* the text blocks of the last response
    tool_use_blocks, \* the tool-use blocks of the last response
    tool_results, \* the result texts of the turn's tools executed so far
    loop_result, \* what the invocation returned
    checkpoint_at, \* the counter at the last checkpoint decision (0 before any)
    loop_event,  \* the kind of the last step of the loop
    fed_back,    \* the tool results last appended to messages for the model
    fed_ids,     \* the tool_use_id of each of those results
    dispatched,  \* the ids of the turn's blocks given to execute_tool, in order
    tools_run,   \* execute_tool calls made by the invocation
    cancelled,   \* conversation.py InteractiveSession.cancelled
    tool_log_len, \* the number of ToolStatus entries in tool_log
    cancel_mark, \* None, or Some(the calls and tools counted when the owner
                 \* set the flag)
    sample,      \* a text given to one of the functions on texts
    sample_nudge, \* the is_nudge argument given with it
    verdict,     \* which function was applied to the sample, and its result
    review_file, \* state/weekly_review_session.json: None, or Some(its content)
    review_clock, \* datetime.now(UTC), in hours
    review_reply, \* the last call of weekly_review_conductor and what it returned
    perch_state, \* state/perch_state.json as _load_perch_state reads it
    memory_archive, \* the batches of journal entries archived to memory, in order
    perch_run,   \* the latest perch_tick: its clock reading, the entries it
                 \* selected, whether it called start_work and how it ended
    stream,      \* stream_claude_code: the lines of the subprocess, the position
                 \* in them, current_tool and the handler's callbacks
    loops        \* the loop invocations that write to one journal: for each
                 \* its position, counter, messages list and return value

preVars == <<bot_state, now, last_op, last_ret, last_desc>>
botVars == <<perch_pc, fg_pc, fg_polls, yield_seen, req_in_tick, handoff,
             perch_started>>
sessVars == <<use_claude_code, active_sessions, sess_pc, nudge_pc>>
ctxVars == <<journal, journal_exists, context>>
loopVars == <<loop_mode, has_checkpoint, max_tools, loop_pc, tool_calls,
              model_calls, text_blocks, tool_use_blocks, tool_results, loop_result,
              checkpoint_at, loop_event, fed_back, fed_ids, dispatched,
              tools_run, cancelled, tool_log_len, cancel_mark>>
textVars == <<sample, sample_nudge, verdict>>
writerVars == <<loops>>
reviewVars == <<review_file, review_clock, review_reply>>
perchVars == <<perch_state, memory_archive, perch_run>>
streamVars == <<stream>>
restVars == <<writerVars, reviewVars, perchVars, streamVars>>

vars == <<bot_state, now, last_op, last_ret, last_desc,
          perch_pc, fg_pc, fg_polls, yield_seen, req_in_tick, handoff,
          perch_started,
          use_claude_code, active_sessions, sess_pc, nudge_pc,
          journal, journal_exists, context,
          loop_mode, has_checkpoint, max_tools, loop_pc, tool_calls,
          model_calls, text_blocks, tool_use_blocks, tool_results, loop_result,
          checkpoint_at, loop_event, fed_back, fed_ids, dispatched,
          tools_run, cancelled, tool_log_len, cancel_mark,
          sample, sample_nudge, verdict,
          review_file, review_clock, review_reply,
          perch_state, memory_archive, perch_run, stream,
          loops>>

(***************************************************************************)
(* Optional values: Python None is the empty sequence, a value x is <<x>>. *)
(***************************************************************************)
None == <<>>
Some(x) == <<x>>

(***************************************************************************)
(* preemption.py                                                           *)
(***************************************************************************)
IDLE == "idle"
WORKING == "working"
WRAPPING_UP == "wrapping_up"
BotStatus == {IDLE, WORKING, WRAPPING_UP}

\* elapsed > 600 in check_stuck
STUCK_SECONDS == 600

BotState ==
    [status |-> IDLE, current_task |-> None, started_at |-> None,
     preempt_requested |-> FALSE, preempt_reason |-> None]

get_state == bot_state

start_work(s, description, t) ==
    [s EXCEPT !.status = WORKING,
              !.current_task = Some(description),
              !.started_at = Some(t)]

finish_work_wraps_up(s) ==
    [s EXCEPT !.status = IF s.preempt_requested THEN WRAPPING_UP ELSE IDLE,
              !.current_task = None, !.started_at = None]

finish_work_keeps_task(s) ==
    [s EXCEPT !.status = IDLE, !.started_at = None]

finish_work(s) ==
    [s EXCEPT !.status = IDLE, !.current_task = None, !.started_at = None]

request_preempt(s, reason) ==
    [s EXCEPT !.preempt_requested = TRUE, !.preempt_reason = Some(reason)]

clear_preempt_keeps_reason(s) ==
    [s EXCEPT !.preempt_requested = FALSE]

clear_preempt(s) ==
    [s EXCEPT !.preempt_requested = FALSE, !.preempt_reason = None]

should_yield_never(s) == FALSE

should_yield(s) == s.preempt_requested

check_stuck_clears_request(s, t) ==
    IF s.status # WORKING \/ s.started_at = None
    THEN [ret |-> FALSE, state |-> s]
    ELSE IF t - s.started_at[1] > STUCK_SECONDS
         THEN [ret |-> TRUE, state |-> clear_preempt(finish_work(s))]
         ELSE [ret |-> FALSE, state |-> s]

check_stuck_at_ceiling(s, t) ==
    IF s.status # WORKING \/ s.started_at = None
    THEN [ret |-> FALSE, state |-> s]
    ELSE IF t - s.started_at[1] >= STUCK_SECONDS
         THEN [ret |-> TRUE, state |-> finish_work(s)]
         ELSE [ret |-> FALSE, state |-> s]

\* returns the pair (return value, state afterwards)
check_stuck(s, t) ==
    IF s.status # WORKING \/ s.started_at = None
    THEN [ret |-> FALSE, state |-> s]
    ELSE IF t - s.started_at[1] > STUCK_SECONDS
         THEN [ret |-> TRUE, state |-> finish_work(s)]
         ELSE [ret |-> FALSE, state |-> s]

(***************************************************************************)
(* Bounds and inputs of the preemption interleaving.                       *)
(***************************************************************************)
MaxNow == 1205
MaxDrift == 2
Descriptions == {"archiving conversation", "test task"}
Reasons == {"User message: hi", "user message"}
TickSteps == {1, STUCK_SECONDS}

\* owner messages of the foreground path
Msgs == {1, 2}

InitPreempt ==
    /\ bot_state = BotState
    /\ now = 0
    /\ last_op = "init"
    /\ last_ret = "none"
    /\ last_desc = None

InitBotVars ==
    /\ perch_pc = "idle"
    /\ fg_pc = [h \in Msgs |-> "not_arrived"]
    /\ fg_polls = [h \in Msgs |-> 0]
    /\ yield_seen = "none"
    /\ req_in_tick = FALSE
    /\ handoff = "none"
    /\ perch_started = None

\* scheduled nudge jobs and the owner's DM channel
Nudges == {1, 2}
CHANNEL == "dm"

InitSessVars ==
    /\ use_claude_code \in BOOLEAN
    /\ active_sessions = [c \in {} |-> 0]
    /\ sess_pc = [h \in Msgs |-> "not_arrived"]
    /\ nudge_pc = [n \in Nudges |-> "idle"]

InitSessFixed ==
    /\ use_claude_code = TRUE
    /\ active_sessions = [c \in {} |-> 0]
    /\ sess_pc = [h \in Msgs |-> "not_arrived"]
    /\ nudge_pc = [n \in Nudges |-> "idle"]

(***************************************************************************)
(* agent/loop.py: the budgets, and a loop that has not been invoked.       *)
(***************************************************************************)
MAX_TOOL_CALLS == 20
MAX_TOOL_CALLS_SIMPLE == 5

NoResult == [kind |-> "none", text |-> <<>>]

\* no function applied yet
NoVerdict == [op |-> "none", flag |-> FALSE, model |-> "none", budget |-> 0]

InitTextFixed ==
    /\ sample = <<>>
    /\ sample_nudge = FALSE
    /\ verdict = NoVerdict

\* the invocations that share the journal, and one that has not started
LoopIds == {1, 2}

\* InteractiveSession.__init__: an empty tool_log; calls records the calls
\* of on_tool_start and on_tool_end the session has received, in order
NewSession == [tool_log |-> <<>>, calls |-> <<>>]

IdleLoop ==
    [pc |-> "idle", mode |-> "none", max_tools |-> 0, tool_calls |-> 0,
     model_calls |-> 0, messages |-> <<>>, text_blocks |-> <<>>, tool_use_blocks |-> <<>>,
     tool_results |-> <<>>, dispatched |-> <<>>, result |-> NoResult,
     session |-> NewSession]

\* no call of the conductor yet
NoReply == [action |-> <<>>, kind |-> "none", step |-> 0, covered |-> <<>>]

InitReviewFixed ==
    /\ review_file = None
    /\ review_clock = 0
    /\ review_reply = NoReply

\* _load_perch_state without a file: {}
NoPerchState == [last_archive_ts |-> None, last_tick_ts |-> None]

\* no tick has run
NoRun ==
    [now |-> 0, entries |-> <<>>, outcome |-> "none", started |-> FALSE,
     count |-> 0]

InitPerchFixed ==
    /\ perch_state = NoPerchState
    /\ memory_archive = <<>>
    /\ perch_run = NoRun

\* stream_claude_code before its subprocess has written anything
NoStream ==
    [pc |-> "reading", lines |-> <<>>, next |-> 1, current_tool |-> None,
     session |-> NewSession, yielded |-> 0]

InitStreamFixed == stream = NoStream

InitRestFixed ==
    /\ loops = [p \in LoopIds |-> IdleLoop]
    /\ InitReviewFixed
    /\ InitPerchFixed
    /\ InitStreamFixed

InitLoopFixed ==
    /\ loop_mode = "plain"
    /\ has_checkpoint = FALSE
    /\ max_tools = MAX_TOOL_CALLS
    /\ loop_pc = "start"
    /\ tool_calls = 0
    /\ model_calls = 0
    /\ text_blocks = <<>>
    /\ tool_use_blocks = <<>>
    /\ tool_results = <<>>
    /\ loop_result = NoResult
    /\ checkpoint_at = 0
    /\ loop_event = "none"
    /\ fed_back = <<>>
    /\ fed_ids = <<>>
    /\ dispatched = <<>>
    /\ tools_run = 0
    /\ cancelled = FALSE
    /\ tool_log_len = 0
    /\ cancel_mark = None

InitCtxFixed ==
    /\ journal = <<>>
    /\ journal_exists = FALSE
    /\ context = None

InitPre ==
    /\ InitPreempt
    /\ InitBotVars
    /\ InitSessFixed
    /\ InitCtxFixed
    /\ InitLoopFixed
    /\ InitTextFixed
    /\ InitRestFixed

StartWork(d) ==
    /\ bot_state' = start_work(bot_state, d, now)
    /\ last_op' = "start_work"
    /\ last_ret' = "none"
    /\ last_desc' = Some(d)
    /\ UNCHANGED now
    /\ UNCHANGED <<restVars, textVars, botVars, sessVars, ctxVars, loopVars>>

FinishWork ==
    /\ bot_state' = finish_work(bot_state)
    /\ last_op' = "finish_work"
    /\ last_ret' = "none"
    /\ UNCHANGED <<now, last_desc>>
    /\ UNCHANGED <<restVars, textVars, botVars, sessVars, ctxVars, loopVars>>

RequestPreempt(r) ==
    /\ bot_state' = request_preempt(bot_state, r)
    /\ last_op' = "request_preempt"
    /\ last_ret' = "none"
    /\ UNCHANGED <<now, last_desc>>
    /\ UNCHANGED <<restVars, textVars, botVars, sessVars, ctxVars, loopVars>>

ClearPreempt ==
    /\ bot_state' = clear_preempt(bot_state)
    /\ last_op' = "clear_preempt"
    /\ last_ret' = "none"
    /\ UNCHANGED <<now, last_desc>>
    /\ UNCHANGED <<restVars, textVars, botVars, sessVars, ctxVars, loopVars>>

ShouldYield ==
    /\ last_op' = "should_yield"
    /\ last_ret' = should_yield(bot_state)
    /\ UNCHANGED <<bot_state, now, last_desc>>
    /\ UNCHANGED <<restVars, textVars, botVars, sessVars, ctxVars, loopVars>>

CheckStuck ==
    /\ bot_state' = check_stuck(bot_state, now).state
    /\ last_op' = "check_stuck"
    /\ last_ret' = check_stuck(bot_state, now).ret
    /\ UNCHANGED <<now, last_desc>>
    /\ UNCHANGED <<restVars, textVars, botVars, sessVars, ctxVars, loopVars>>

\* time passes between two calls
Tick(d) ==
    /\ now + d <= MaxNow
    /\ d = 1 => (now % STUCK_SECONDS) < MaxDrift
    /\ now' = now + d
    /\ last_op' = "tick"
    /\ last_ret' = "none"
    /\ UNCHANGED <<bot_state, last_desc>>
    /\ UNCHANGED <<restVars, textVars, botVars, sessVars, ctxVars, loopVars>>

NextPre ==
    \/ \E d \in Descriptions : StartWork(d)
    \/ FinishWork
    \/ \E r \in Reasons : RequestPreempt(r)
    \/ ClearPreempt
    \/ ShouldYield
    \/ CheckStuck
    \/ \E d \in TickSteps : Tick(d)

SpecPreempt == InitPre /\ [][NextPre]_vars

(***************************************************************************)
(* C4: in every state reachable by interleaving start_work, finish_work,   *)
(* request_preempt, clear_preempt, should_yield and check_stuck, a working *)
(* state has started_at set and current_task equal to the description      *)
(* given to start_work, and an idle state has current_task and started_at  *)
(* both null.                                                              *)
(***************************************************************************)
C4_StateInvariant ==
    /\ bot_state.status = WORKING =>
          /\ bot_state.started_at # None
          /\ bot_state.current_task # None
          /\ bot_state.current_task = last_desc
    /\ bot_state.status = IDLE =>
          /\ bot_state.current_task = None
          /\ bot_state.started_at = None

\* a working state with a pending request, after the watchdog looked at it
C4_Witness ==
    /\ bot_state.status = WORKING
    /\ bot_state.preempt_requested
    /\ last_op = "check_stuck"
    /\ now > STUCK_SECONDS

(***************************************************************************)
(* C6: check_stuck returns true and resets the state to idle, with         *)
(* current_task and started_at cleared, exactly when the status is working *)
(* and more than 600 seconds have passed since started_at; in every other  *)
(* state it returns false and leaves the whole state unchanged.            *)
(***************************************************************************)
C6_Watchdog ==
    [][ last_op' = "check_stuck" =>
          LET stuck == /\ bot_state.status = WORKING
                       /\ now - bot_state.started_at[1] > 600
          IN  /\ last_ret' = stuck
              /\ stuck => bot_state' = [bot_state EXCEPT !.status = IDLE,
                                                         !.current_task = None,
                                                         !.started_at = None]
              /\ ~stuck => bot_state' = bot_state ]_vars

\* the watchdog fired on a task that had a preemption request pending
C6_Witness ==
    /\ last_op = "check_stuck"
    /\ last_ret = TRUE
    /\ bot_state.status = IDLE
    /\ bot_state.preempt_requested

(***************************************************************************)
(* bot.py on_message and perch.py perch_tick: the foreground path and the  *)
(* background task, interleaved at their await points.                     *)
(***************************************************************************)
\* for _ in range(30)
POLL_LIMIT == 30
\* await asyncio.sleep(2)
SLEEP_SECONDS == 2
PERCH_TASK == "archiving conversation"

\* the loop of on_message ends after this poll: break on idle, or range exhausted
wait_over_on_first_poll(s, polls_done) == TRUE

\* a variant whose wait has no bound
wait_over_only_when_idle(s, polls_done) == s.status = IDLE

wait_over(s, polls_done) ==
    s.status = IDLE \/ polls_done = POLL_LIMIT

\* on_message up to its first await: get_state, check_stuck, the WORKING test
FgArrive(h) ==
    /\ fg_pc[h] = "not_arrived"
    /\ LET after == check_stuck(bot_state, now).state
       IN  /\ bot_state' = after
           /\ fg_pc' = [fg_pc EXCEPT ![h] =
                  IF after.status = WORKING THEN "acking" ELSE "handling"]
    /\ UNCHANGED <<now, last_op, last_ret, last_desc, perch_pc, fg_polls,
                   yield_seen, req_in_tick, handoff, perch_started>>
    /\ UNCHANGED <<restVars, textVars, sessVars, ctxVars, loopVars>>

\* channel.send returned: request_preempt, then the first asyncio.sleep
FgAcked(h, r) ==
    /\ fg_pc[h] = "acking"
    /\ bot_state' = request_preempt(bot_state, r)
    /\ fg_pc' = [fg_pc EXCEPT ![h] = "polling"]
    /\ fg_polls' = [fg_polls EXCEPT ![h] = 0]
    /\ req_in_tick' = (req_in_tick \/ perch_pc # "idle")
    /\ yield_seen' = "none"
    /\ UNCHANGED <<now, last_op, last_ret, last_desc, perch_pc, handoff, perch_started>>
    /\ UNCHANGED <<restVars, textVars, sessVars, ctxVars, loopVars>>

\* one asyncio.sleep(2) returned: test the status, leave the loop or sleep again;
\* leaving the loop runs clear_preempt and enters handle_message
FgPoll(h) ==
    /\ fg_pc[h] = "polling"
    /\ now' = now + SLEEP_SECONDS
    /\ fg_polls' = [fg_polls EXCEPT ![h] = @ + 1]
    /\ IF wait_over(get_state, fg_polls'[h])
       THEN /\ bot_state' = clear_preempt(bot_state)
            /\ fg_pc' = [fg_pc EXCEPT ![h] = "handling"]
            /\ handoff' = IF handoff = "yielded" /\ bot_state.status = IDLE
                          THEN "resumed" ELSE handoff
       ELSE /\ UNCHANGED <<bot_state, fg_pc, handoff>>
    /\ UNCHANGED <<last_op, last_ret, last_desc, perch_pc, yield_seen, req_in_tick,
                   perch_started>>
    /\ UNCHANGED <<restVars, textVars, sessVars, ctxVars, loopVars>>

\* handle_message returned
FgHandled(h) ==
    /\ fg_pc[h] = "handling"
    /\ fg_pc' = [fg_pc EXCEPT ![h] = "done"]
    /\ UNCHANGED <<preVars, perch_pc, fg_polls, yield_seen, req_in_tick, handoff,
                   perch_started>>
    /\ UNCHANGED <<restVars, textVars, sessVars, ctxVars, loopVars>>

\* perch_tick with entries to archive, up to its first await: start_work, the
\* first yield check, and (without an API key) the rest of the tick
PerchStart(has_key) ==
    /\ perch_pc = "idle"
    /\ last_desc' = Some(PERCH_TASK)
    /\ LET started == start_work(bot_state, PERCH_TASK, now)
       IN  IF should_yield(started)
           THEN /\ bot_state' = finish_work(started)
                /\ yield_seen' = "yes"
                /\ handoff' = "yielded"
                /\ UNCHANGED perch_pc
           ELSE /\ yield_seen' = "no"
                /\ UNCHANGED handoff
                /\ IF has_key
                   THEN /\ bot_state' = started
                        /\ perch_pc' = "summarizing"
                   ELSE /\ bot_state' = finish_work(started)
                        /\ UNCHANGED perch_pc
    /\ req_in_tick' = FALSE
    /\ perch_started' = IF perch_pc' = "idle" THEN None ELSE Some(now)
    /\ UNCHANGED <<now, last_op, last_ret, fg_pc, fg_polls>>
    /\ UNCHANGED <<restVars, textVars, sessVars, ctxVars, loopVars>>

\* _summarize_and_evaluate returned: the second yield check, then archiving
PerchSummarized(summary, archive) ==
    /\ perch_pc = "summarizing"
    /\ yield_seen' = IF should_yield(bot_state) THEN "yes" ELSE "no"
    /\ IF should_yield(bot_state)
       THEN /\ bot_state' = finish_work(bot_state)
            /\ perch_pc' = "idle"
            /\ handoff' = "yielded"
       ELSE /\ UNCHANGED handoff
            /\ IF summary = "none" \/ archive = "raises"
               THEN /\ bot_state' = finish_work(bot_state)
                    /\ perch_pc' = "idle"
               ELSE /\ UNCHANGED bot_state
                    /\ perch_pc' = "notifying"
    /\ req_in_tick' = (req_in_tick /\ perch_pc' # "idle")
    /\ perch_started' = IF perch_pc' = "idle" THEN None ELSE perch_started
    /\ UNCHANGED <<now, last_op, last_ret, last_desc, fg_pc, fg_polls>>
    /\ UNCHANGED <<restVars, textVars, sessVars, ctxVars, loopVars>>

\* the debug DM was sent: save the perch state, then finally: finish_work
PerchNotified ==
    /\ perch_pc = "notifying"
    /\ bot_state' = finish_work(bot_state)
    /\ perch_pc' = "idle"
    /\ req_in_tick' = FALSE
    /\ perch_started' = None
    /\ UNCHANGED <<now, last_op, last_ret, last_desc, fg_pc, fg_polls,
                   yield_seen, handoff>>
    /\ UNCHANGED <<restVars, textVars, sessVars, ctxVars, loopVars>>

\* an awaited call (the summarization request, a send) takes ten minutes;
\* a two-second sleep in progress does not
Hang ==
    /\ \A h \in Msgs : fg_pc[h] # "polling"
    /\ Tick(STUCK_SECONDS)

Fg(h) ==
    \/ FgArrive(h)
    \/ \E r \in Reasons : FgAcked(h, r)
    \/ FgPoll(h)
    \/ FgHandled(h)

Perch ==
    \/ \E k \in BOOLEAN : PerchStart(k)
    \/ \E sm \in {"none", "text"}, ar \in {"ok", "raises"} : PerchSummarized(sm, ar)
    \/ PerchNotified

NextBot ==
    \/ \E h \in Msgs : Fg(h)
    \/ Perch
    \/ Hang

SpecBot == InitPre /\ [][NextBot]_vars

\* one owner message in flight
NextHandoff ==
    \/ Fg(1)
    \/ Perch
    \/ Hang

SpecHandoff == InitPre /\ [][NextHandoff]_vars

(***************************************************************************)
(* C5 as stated: once request_preempt has been called for a message that   *)
(* arrived while the tick was working, the tick's next yield check         *)
(* observes should_yield() = true and the tick calls finish_work.          *)
(***************************************************************************)
C5_YieldAlwaysObserved ==
    [][ (req_in_tick /\ perch_pc = "summarizing" /\ perch_pc' # "summarizing")
          => (yield_seen' = "yes" /\ bot_state'.status = IDLE) ]_vars

(***************************************************************************)
(* C5 amended: with one owner message in flight, the request stays pending *)
(* for as long as the waiter polls, so a yield check reached while the     *)
(* waiter is still polling observes should_yield() = true and the tick     *)
(* calls finish_work; the waiter's next poll then sees idle, clears the    *)
(* request and enters handle_message.                                      *)
(***************************************************************************)
C5_Handoff ==
    /\ [](fg_pc[1] = "polling" =>
            /\ bot_state.preempt_requested
            /\ yield_seen # "no"
            /\ yield_seen = "yes" =>
                 /\ bot_state.status = IDLE
                 /\ perch_pc = "idle"
                 /\ handoff = "yielded")
    /\ [][ (fg_pc[1] = "polling" /\ yield_seen = "yes"
              /\ fg_polls'[1] # fg_polls[1])
             => /\ fg_pc'[1] = "handling"
                /\ ~bot_state'.preempt_requested
                /\ bot_state'.status = IDLE
                /\ handoff' = "resumed" ]_vars

\* the tick yielded at its second check and the waiter went on before its bound
C5_Witness ==
    /\ handoff = "resumed"
    /\ yield_seen = "yes"
    /\ fg_pc[1] = "handling"
    /\ fg_polls[1] > 1
    /\ fg_polls[1] < POLL_LIMIT
    /\ ~bot_state.preempt_requested

(***************************************************************************)
(* C7 as stated: when a message that found the state WORKING begins        *)
(* handling, the status is idle and no background tick is between its      *)
(* start_work and its finish_work.                                         *)
(***************************************************************************)
C7_MutualExclusion ==
    [][ \A h \in Msgs :
          (fg_pc[h] = "polling" /\ fg_pc'[h] = "handling")
            => (bot_state'.status = IDLE /\ perch_pc' = "idle") ]_vars

(***************************************************************************)
(* C7 amended: a message that found the state WORKING begins handling only *)
(* after a poll that saw the status idle or after its 30th poll; when it   *)
(* begins before the 30th poll the status is idle, and a tick still        *)
(* between start_work and finish_work is one the watchdog reset, started   *)
(* more than 600 seconds earlier. A message that begins handling without   *)
(* waiting found the status idle.                                          *)
(***************************************************************************)
C7_BoundedWait ==
    [][ \A h \in Msgs :
          /\ (fg_pc[h] = "polling" /\ fg_pc'[h] = "handling")
               => /\ fg_polls'[h] >= 1
                  /\ \/ fg_polls'[h] = POLL_LIMIT
                     \/ /\ bot_state'.status = IDLE
                        /\ \/ perch_pc' = "idle"
                           \/ now' - perch_started'[1] > STUCK_SECONDS
          /\ (fg_pc[h] = "not_arrived" /\ fg_pc'[h] = "handling")
               => bot_state'.status = IDLE
          /\ (fg_pc[h] = "not_arrived" /\ bot_state'.status = WORKING)
               => fg_pc'[h] \in {"not_arrived", "acking"} ]_vars

\* a message waited for a working tick and went on at idle before its bound
C7_Witness ==
    \E h \in Msgs :
        /\ fg_pc[h] = "handling"
        /\ fg_polls[h] >= 1
        /\ fg_polls[h] < POLL_LIMIT
        /\ bot_state.status = IDLE
        /\ perch_pc = "idle"

(***************************************************************************)
(* handlers/conversation.py handle_message and nudge.py send_nudge: the    *)
(* handlers that start an orchestration loop, interleaved at their awaits. *)
(***************************************************************************)
\* channel_id in _active_sessions
session_active(sessions, channel) == channel \in DOMAIN sessions

\* _active_sessions[channel_id] = session
register_session(sessions, channel, session) ==
    [c \in DOMAIN sessions \cup {channel} |->
        IF c = channel THEN session ELSE sessions[c]]

\* a variant that leaves the entry in place
pop_session_keeps_entry(sessions, channel) == sessions

\* _active_sessions.pop(channel_id, None)
pop_session(sessions, channel) ==
    [c \in DOMAIN sessions \ {channel} |-> sessions[c]]

\* the loops running: run_agent_loop_interactive, run_claude_code, run_agent_loop
LoopsRunning ==
    Cardinality({h \in Msgs : sess_pc[h] = "looping"})
      + Cardinality({n \in Nudges : nudge_pc[n] = "looping"})

\* handle_message_sdk up to "await message.reply": the active-session test
SdkArrive(h) ==
    /\ ~use_claude_code
    /\ sess_pc[h] = "not_arrived"
    /\ sess_pc' = [sess_pc EXCEPT ![h] =
           IF session_active(active_sessions, CHANNEL) THEN "routed" ELSE "replying"]
    /\ UNCHANGED <<restVars, textVars, preVars, botVars, ctxVars, loopVars, use_claude_code, active_sessions, nudge_pc>>

\* message.reply returned: register the session and enter the interactive loop
SdkReplied(h) ==
    /\ ~use_claude_code
    /\ sess_pc[h] = "replying"
    /\ active_sessions' = register_session(active_sessions, CHANNEL, h)
    /\ sess_pc' = [sess_pc EXCEPT ![h] = "looping"]
    /\ UNCHANGED <<restVars, textVars, preVars, botVars, ctxVars, loopVars, use_claude_code, nudge_pc>>

\* message.reply raised: the outer except replies and returns
SdkReplyFailed(h) ==
    /\ ~use_claude_code
    /\ sess_pc[h] = "replying"
    /\ sess_pc' = [sess_pc EXCEPT ![h] = "done"]
    /\ UNCHANGED <<restVars, textVars, preVars, botVars, ctxVars, loopVars, use_claude_code, active_sessions, nudge_pc>>

\* the loop returned, and the response is put into the status message, or it
\* raised, and the except clause puts the apology there: both edits are awaited
SdkLoopDone(h, raised) ==
    /\ ~use_claude_code
    /\ sess_pc[h] = "looping"
    /\ sess_pc' = [sess_pc EXCEPT ![h] = IF raised THEN "apologizing" ELSE "editing"]
    /\ UNCHANGED <<restVars, textVars, preVars, botVars, ctxVars, loopVars, use_claude_code, active_sessions, nudge_pc>>

\* the edit of the response returned, and finally pops the channel, or it
\* raised, and the except clause edits the apology in
SdkEdited(h, ok) ==
    /\ ~use_claude_code
    /\ sess_pc[h] = "editing"
    /\ IF ok
       THEN /\ active_sessions' = pop_session(active_sessions, CHANNEL)
            /\ sess_pc' = [sess_pc EXCEPT ![h] = "done"]
       ELSE /\ sess_pc' = [sess_pc EXCEPT ![h] = "apologizing"]
            /\ UNCHANGED active_sessions
    /\ UNCHANGED <<restVars, textVars, preVars, botVars, ctxVars, loopVars, use_claude_code, nudge_pc>>

\* the edit of the apology returned or raised: finally stop_listening and
\* pop the channel; a raise goes on to the outer except clause
SdkApologized(h) ==
    /\ ~use_claude_code
    /\ sess_pc[h] = "apologizing"
    /\ active_sessions' = pop_session(active_sessions, CHANNEL)
    /\ sess_pc' = [sess_pc EXCEPT ![h] = "done_after_error"]
    /\ UNCHANGED <<restVars, textVars, preVars, botVars, ctxVars, loopVars, use_claude_code, nudge_pc>>

\* handle_message_claude_code up to "await message.reply"
CcArrive(h) ==
    /\ use_claude_code
    /\ sess_pc[h] = "not_arrived"
    /\ sess_pc' = [sess_pc EXCEPT ![h] =
           IF session_active(active_sessions, CHANNEL) THEN "routed" ELSE "replying"]
    /\ UNCHANGED <<restVars, textVars, preVars, botVars, ctxVars, loopVars, use_claude_code, active_sessions, nudge_pc>>

\* message.reply returned (run_claude_code starts) or raised
CcReplied(h, ok) ==
    /\ use_claude_code
    /\ sess_pc[h] = "replying"
    /\ sess_pc' = [sess_pc EXCEPT ![h] = IF ok THEN "looping" ELSE "done"]
    /\ UNCHANGED <<restVars, textVars, preVars, botVars, ctxVars, loopVars, use_claude_code, active_sessions, nudge_pc>>

\* run_claude_code returned or raised
CcLoopDone(h) ==
    /\ use_claude_code
    /\ sess_pc[h] = "looping"
    /\ sess_pc' = [sess_pc EXCEPT ![h] = "done"]
    /\ UNCHANGED <<restVars, textVars, preVars, botVars, ctxVars, loopVars, use_claude_code, active_sessions, nudge_pc>>

\* the scheduler fires send_nudge: fetch_user and create_dm are awaited
NudgeFire(n) ==
    /\ nudge_pc[n] = "idle"
    /\ nudge_pc' = [nudge_pc EXCEPT ![n] = "fetching"]
    /\ UNCHANGED <<restVars, textVars, preVars, botVars, ctxVars, loopVars, use_claude_code, active_sessions, sess_pc>>

\* generate_nudge_content starts its loop, or fetching the channel raised
NudgeGenerate(n, ok) ==
    /\ nudge_pc[n] = "fetching"
    /\ nudge_pc' = [nudge_pc EXCEPT ![n] = IF ok THEN "looping" ELSE "idle"]
    /\ UNCHANGED <<restVars, textVars, preVars, botVars, ctxVars, loopVars, use_claude_code, active_sessions, sess_pc>>

\* the nudge's loop returned; the content is sent
NudgeDone(n) ==
    /\ nudge_pc[n] = "looping"
    /\ nudge_pc' = [nudge_pc EXCEPT ![n] = "idle"]
    /\ UNCHANGED <<restVars, textVars, preVars, botVars, ctxVars, loopVars, use_claude_code, active_sessions, sess_pc>>

InitSessions ==
    /\ InitPreempt
    /\ InitBotVars
    /\ InitSessVars
    /\ InitCtxFixed
    /\ InitLoopFixed
    /\ InitTextFixed
    /\ InitRestFixed

NextSessions ==
    \/ \E h \in Msgs : SdkArrive(h)
    \/ \E h \in Msgs : SdkReplied(h)
    \/ \E h \in Msgs : SdkReplyFailed(h)
    \/ \E h \in Msgs, raised \in BOOLEAN : SdkLoopDone(h, raised)
    \/ \E h \in Msgs, ok \in BOOLEAN : SdkEdited(h, ok)
    \/ \E h \in Msgs : SdkApologized(h)
    \/ \E h \in Msgs : CcArrive(h)
    \/ \E h \in Msgs, ok \in BOOLEAN : CcReplied(h, ok)
    \/ \E h \in Msgs : CcLoopDone(h)
    \/ \E n \in Nudges : NudgeFire(n)
    \/ \E n \in Nudges, ok \in BOOLEAN : NudgeGenerate(n, ok)
    \/ \E n \in Nudges : NudgeDone(n)

SpecSessions == InitSessions /\ [][NextSessions]_vars

(***************************************************************************)
(* C8: at no time are two orchestration loops running for the owner: a     *)
(* message or a nudge that arrives while a loop is running never starts a  *)
(* second one.                                                             *)
(***************************************************************************)
C8_SingleLoop == LoopsRunning <= 1

(***************************************************************************)
(* agent/loop.py: the journal and the context window built from it.        *)
(* A journal line is [form, type, content]: form "object" is a JSON        *)
(* object, "not_json" is text json.loads rejects, "not_object" is JSON     *)
(* that is no object (a list, a number, a string); content 0 is the empty  *)
(* string, any other number is the text of that line.                      *)
(***************************************************************************)
RECENT_CONTEXT_LIMIT == 3
\* lines[-200:]
SCAN_LINES == 200

\* the forms and types a writer, or damage to the file, can leave on a line
LineShapes ==
    {<<"object", "user_message">>, <<"object", "assistant_message">>,
     <<"object", "tool_call">>, <<"object", "tool_result">>,
     <<"not_json", "">>, <<"not_object", "">>}

\* the line kinds _parse_journal_entry does not turn into a message
IsMessageLine(line) ==
    /\ line.form = "object"
    /\ line.type \in {"user_message", "assistant_message"}
    /\ line.content # 0

\* entry.get on a value that is no dict raises AttributeError, which
\* _parse_journal_entry does not catch
_parse_raises(line) == line.form = "not_object"

\* a parser that takes a tool_result record for an assistant message
_parse_journal_entry_keeps_tool_results(line) ==
    IF line.form # "object" THEN None
    ELSE IF line.type = "user_message" /\ line.content # 0
         THEN Some([role |-> "user", content |-> line.content])
    ELSE IF line.type \in {"assistant_message", "tool_result"}
         THEN Some([role |-> "assistant", content |-> line.content])
    ELSE None

\* None, or the message dict
_parse_journal_entry(line) ==
    IF line.form # "object" THEN None
    ELSE IF line.type = "user_message" /\ line.content # 0
         THEN Some([role |-> "user", content |-> line.content])
    ELSE IF line.type = "assistant_message" /\ line.content # 0
         THEN Some([role |-> "assistant", content |-> line.content])
    ELSE None

Reverse(seq) == [i \in 1..Len(seq) |-> seq[Len(seq) + 1 - i]]

\* seq[-n:]
LastN(seq, n) ==
    IF Len(seq) <= n THEN seq ELSE SubSeq(seq, Len(seq) - n + 1, Len(seq))

\* the alternation walk of _validate_message_alternation over msgs[i..]
RECURSIVE AlternationWalk(_, _, _, _)
AlternationWalk(msgs, i, expected_role, validated) ==
    IF i > Len(msgs) THEN validated
    ELSE IF msgs[i].role = expected_role
         THEN AlternationWalk(msgs, i + 1,
                              IF expected_role = "user" THEN "assistant" ELSE "user",
                              Append(validated, msgs[i]))
         ELSE AlternationWalk(msgs, i + 1, expected_role, validated)

_validate_keeps_trailing_user(messages) ==
    IF messages = <<>> THEN <<>>
    ELSE LET users == {i \in 1..Len(messages) : messages[i].role = "user"}
             start_idx == IF users = {} THEN Len(messages) + 1
                          ELSE CHOOSE i \in users : \A j \in users : i <= j
         IN  AlternationWalk(messages, start_idx, "user", <<>>)

_validate_message_alternation(messages) ==
    IF messages = <<>> THEN <<>>
    ELSE LET users == {i \in 1..Len(messages) : messages[i].role = "user"}
             start_idx == IF users = {} THEN Len(messages) + 1
                          ELSE CHOOSE i \in users : \A j \in users : i <= j
             validated == AlternationWalk(messages, start_idx, "user", <<>>)
         IN  IF validated # <<>> /\ validated[Len(validated)].role = "user"
             THEN SubSeq(validated, 1, Len(validated) - 1)
             ELSE validated

\* the scan "for line in reversed(lines[-200:])": the messages collected
\* (newest first), or "raised" when a line made the parser raise.  The scan
\* breaks at the line that brings the count to RECENT_CONTEXT_LIMIT * 2 + 2,
\* so only the lines after that one are parsed.
ScanBack(lines) ==
    LET limit == RECENT_CONTEXT_LIMIT * 2 + 2
        positions == [i \in 1..Len(lines) |-> i]
        found == SelectSeq(positions,
                           LAMBDA i : IF _parse_raises(lines[i]) THEN FALSE
                                      ELSE _parse_journal_entry(lines[i]) # None)
        kept == LastN(found, limit)
        break_at == IF Len(found) >= limit THEN kept[1] ELSE 0
    IN  IF \E i \in (break_at + 1)..Len(lines) : _parse_raises(lines[i])
        THEN [raised |-> TRUE, messages |-> <<>>]
        ELSE [raised |-> FALSE,
              messages |-> [k \in 1..Len(kept) |->
                               _parse_journal_entry(lines[kept[Len(kept) + 1 - k]])[1]]]

\* journal_exists is "journal.exists()"; an exception inside the try returns []
_get_recent_context(exists, lines) ==
    IF ~exists THEN <<>>
    ELSE LET tail == LastN(lines, SCAN_LINES)
             scan == ScanBack(tail)
         IN  IF scan.raised THEN <<>>
             ELSE _validate_message_alternation(
                      LastN(Reverse(scan.messages), RECENT_CONTEXT_LIMIT * 2))

\* bounds of the journals examined
MaxJournal == 9
MaxSkipped == 1

SkippedLines(lines) == Cardinality({i \in 1..Len(lines) : ~IsMessageLine(lines[i])})

InitCtx ==
    /\ InitPreempt
    /\ InitBotVars
    /\ InitSessFixed
    /\ journal = <<>>
    /\ journal_exists \in BOOLEAN
    /\ context = None
    /\ InitLoopFixed
    /\ InitTextFixed
    /\ InitRestFixed

\* a line is appended to journal.jsonl: by _log_to_journal, or damaged
AppendLine(shape, empty) ==
    /\ context = None
    /\ Len(journal) < MaxJournal
    /\ LET line == [form |-> shape[1], type |-> shape[2],
                    \* tool_call and tool_result entries have no "content" key
                    content |-> IF empty \/ shape[2] \notin {"user_message",
                                                            "assistant_message"}
                                THEN 0 ELSE Len(journal) + 1]
       IN  /\ ~IsMessageLine(line) => SkippedLines(journal) < MaxSkipped
           /\ journal' = Append(journal, line)
    /\ journal_exists' = TRUE
    /\ UNCHANGED <<restVars, textVars, context, preVars, botVars, sessVars, loopVars>>

\* the loop reads its context window
ReadContext ==
    /\ context = None
    /\ context' = Some(_get_recent_context(journal_exists, journal))
    /\ UNCHANGED <<restVars, textVars, journal, journal_exists, preVars, botVars, sessVars, loopVars>>

NextCtx ==
    \/ \E shape \in LineShapes, empty \in BOOLEAN : AppendLine(shape, empty)
    \/ ReadContext

SpecCtx == InitCtx /\ [][NextCtx]_vars

(***************************************************************************)
(* C9: for every journal content the context window, when non-empty,       *)
(* starts with a user message, strictly alternates user/assistant and ends *)
(* on assistant; for an empty or missing journal it is the empty sequence. *)
(***************************************************************************)
C9_Alternation ==
    Len(context) = 1 =>
        LET messages == context[1]
        IN  /\ \A i \in 1..Len(messages) :
                   messages[i].role = IF i % 2 = 1 THEN "user" ELSE "assistant"
            /\ Len(messages) % 2 = 0
            /\ Len(messages) <= RECENT_CONTEXT_LIMIT * 2
            /\ (journal = <<>> \/ ~journal_exists) => messages = <<>>

\* a full window read from a journal whose oldest line, no JSON object, lies
\* beyond the point where the scan stops
C9_Witness ==
    /\ Len(context) = 1
    /\ Len(context[1]) = RECENT_CONTEXT_LIMIT * 2
    /\ Len(journal) = MaxJournal
    /\ journal[1].form = "not_object"

(***************************************************************************)
(* Texts.  A text is a sequence of one-character strings, so that lower(), *)
(* strip(), endswith() and the "in" test of Python are computed on the     *)
(* characters.                                                             *)
(***************************************************************************)
UpperCase == <<"A", "B", "C", "D", "E", "F", "G", "H", "I", "J", "K", "L", "M", "N", "O", "P", "Q", "R", "S", "T", "U", "V", "W", "X", "Y", "Z">>
LowerCase == <<"a", "b", "c", "d", "e", "f", "g", "h", "i", "j", "k", "l", "m", "n", "o", "p", "q", "r", "s", "t", "u", "v", "w", "x", "y", "z">>

LowerOf ==
    [c \in {UpperCase[i] : i \in 1..Len(UpperCase)} |->
        LowerCase[CHOOSE i \in 1..Len(UpperCase) : UpperCase[i] = c]]

LowerChar(c) == IF c \in DOMAIN LowerOf THEN LowerOf[c] ELSE c

\* str.lower()
lower(text) == [i \in 1..Len(text) |-> LowerChar(text[i])]

Whitespace == {" ", "\n", "\t", "\r"}

\* str.lstrip(), str.rstrip(), str.strip()
RECURSIVE lstrip(_)
lstrip(text) ==
    IF text # <<>> /\ Head(text) \in Whitespace THEN lstrip(Tail(text)) ELSE text

RECURSIVE rstrip(_)
rstrip(text) ==
    IF text # <<>> /\ text[Len(text)] \in Whitespace
    THEN rstrip(SubSeq(text, 1, Len(text) - 1))
    ELSE text

strip(text) == rstrip(lstrip(text))

\* "pat in text"
Contains(text, pat) ==
    \E i \in 0..(Len(text) - Len(pat)) : \A j \in 1..Len(pat) : text[i + j] = pat[j]

\* str.endswith(suffix)
endswith(text, suffix) ==
    /\ Len(text) >= Len(suffix)
    /\ SubSeq(text, Len(text) - Len(suffix) + 1, Len(text)) = suffix

\* str.startswith(prefix)
startswith(text, prefix) ==
    /\ Len(text) >= Len(prefix)
    /\ SubSeq(text, 1, Len(prefix)) = prefix

\* "\n".join(b.text for b in text_blocks)
RECURSIVE join(_)
join(blocks) ==
    IF blocks = <<>> THEN <<>>
    ELSE IF Len(blocks) = 1 THEN blocks[1]
    ELSE blocks[1] \o <<"\n">> \o join(Tail(blocks))

(***************************************************************************)
(* agent/loop.py: the two heuristics of the success-gated early return.    *)
(***************************************************************************)
error_signals ==
    {<<"e", "r", "r", "o", "r", ":">>, <<"f", "a", "i", "l", "e", "d", ":">>, <<"e", "x", "c", "e", "p", "t", "i", "o", "n", ":">>, <<"n", "o", "t", " ", "f", "o", "u", "n", "d">>, <<"d", "e", "n", "i", "e", "d">>,
     <<"u", "n", "a", "u", "t", "h", "o", "r", "i", "z", "e", "d">>, <<"t", "i", "m", "e", "o", "u", "t">>, <<"c", "o", "u", "l", "d", " ", "n", "o", "t">>, <<"u", "n", "a", "b", "l", "e", " ", "t", "o">>}

_tool_succeeded_case_sensitive(result) ==
    ~ \E signal \in error_signals : Contains(result, signal)

_tool_succeeded(result) ==
    LET result_lower == lower(result)
    IN  ~ \E signal \in error_signals : Contains(result_lower, signal)

\* text[-100:]
TAIL_CHARS == 100

intent_phrases ==
    {<<"l", "e", "t", " ", "m", "e", " ">>, <<"i", "'", "l", "l", " ">>, <<"i", " ", "w", "i", "l", "l", " ">>, <<"i", "'", "m", " ", "g", "o", "i", "n", "g", " ", "t", "o", " ">>, <<"l", "e", "t", "'", "s", " ">>}

_is_intent_text_anywhere(raw) ==
    LET text == strip(raw)
    IN  IF text = <<>> THEN TRUE
        ELSE IF endswith(text, <<":">>) THEN TRUE
        ELSE \E phrase \in intent_phrases : Contains(lower(text), phrase)

_is_intent_text(raw) ==
    LET text == strip(raw)
    IN  IF text = <<>> THEN TRUE
        ELSE IF endswith(text, <<":">>) THEN TRUE
        ELSE LET tail == lower(LastN(text, TAIL_CHARS))
             IN  \E phrase \in intent_phrases : Contains(tail, phrase)

(***************************************************************************)
(* agent/loop.py: the choice of model and budget.  The four patterns of    *)
(* SIMPLE_TASK_PATTERNS are matched as re.search matches them.             *)
(***************************************************************************)
MODEL_OPUS == "claude-opus-4-5-20251101"
MODEL_SONNET == "claude-sonnet-4-20250514"

Digits == {"0", "1", "2", "3", "4", "5", "6", "7", "8", "9"}

\* \w
WordChars ==
    {LowerCase[i] : i \in 1..Len(LowerCase)} \cup
    {UpperCase[i] : i \in 1..Len(UpperCase)} \cup Digits \cup {"_"}

IsWordAt(text, i) == i \in 1..Len(text) /\ text[i] \in WordChars

\* \b between the characters i and i + 1 (0 and Len(text) are the two ends)
Boundary(text, i) == IsWordAt(text, i) # IsWordAt(text, i + 1)

\* pat stands at the characters i + 1 .. i + Len(pat)
MatchAt(text, i, pat) ==
    /\ i + Len(pat) <= Len(text)
    /\ \A j \in 1..Len(pat) : text[i + j] = pat[j]

\* \s+ stands at the characters i + 1 .. j
SpacesBetween(text, i, j) ==
    /\ i < j
    /\ j <= Len(text)
    /\ \A p \in (i + 1)..j : text[p] \in Whitespace

\* "mark.{0,20}done"
MARK_GAP == 20

CompletionWords == {<<"c", "o", "m", "p", "l", "e", "t", "e">>, <<"c", "l", "o", "s", "e">>, <<"f", "i", "n", "i", "s", "h">>, <<"d", "o", "n", "e">>, <<"c", "h", "e", "c", "k", " ", "o", "f", "f">>}

\* r"\b(complete|close|finish|done|check off|mark.{0,20}done)\b"
MatchesCompletion(text) ==
    \E i \in 0..Len(text) :
        /\ Boundary(text, i)
        /\ \/ \E w \in CompletionWords :
                  MatchAt(text, i, w) /\ Boundary(text, i + Len(w))
           \/ \E gap \in 0..MARK_GAP :
                  /\ MatchAt(text, i, <<"m", "a", "r", "k">>)
                  /\ MatchAt(text, i + 4 + gap, <<"d", "o", "n", "e">>)
                  /\ \A p \in (i + 5)..(i + 4 + gap) : text[p] # "\n"
                  /\ Boundary(text, i + 8 + gap)

CreationVerbs == {<<"a", "d", "d">>, <<"c", "r", "e", "a", "t", "e">>, <<"m", "a", "k", "e">>}

CreationNouns == {<<"t", "a", "s", "k">>, <<"t", "o", "d", "o">>, <<"r", "e", "m", "i", "n", "d", "e", "r">>}

NounAt(text, k) ==
    \E noun \in CreationNouns :
        MatchAt(text, k, noun) /\ Boundary(text, k + Len(noun))

\* r"\b(add|create|make)\s+(a\s+)?(task|todo|reminder)\b"
MatchesCreation(text) ==
    \E i \in 0..Len(text), verb \in CreationVerbs :
        /\ Boundary(text, i)
        /\ MatchAt(text, i, verb)
        /\ \E b \in (i + Len(verb) + 1)..Len(text) :
               /\ SpacesBetween(text, i + Len(verb), b)
               /\ \/ NounAt(text, b)
                  \/ /\ MatchAt(text, b, <<"a">>)
                     /\ \E c \in (b + 2)..Len(text) :
                            SpacesBetween(text, b + 1, c) /\ NounAt(text, c)

Confirmations ==
    {<<"y", "e", "s">>, <<"n", "o">>, <<"o", "k">>, <<"s", "u", "r", "e">>, <<"y", "e", "p">>, <<"n", "o", "p", "e">>, <<"d", "o", " ", "i", "t">>, <<"g", "o", " ", "a", "h", "e", "a", "d">>, <<"s", "o", "u", "n", "d", "s", " ", "g", "o", "o", "d">>}

\* r"^(yes|no|ok|sure|yep|nope|do it|go ahead|sounds good)\b"
MatchesConfirmation(text) ==
    \E w \in Confirmations : MatchAt(text, 0, w) /\ Boundary(text, Len(w))

\* r"^query\s+"
MatchesQuery(text) ==
    MatchAt(text, 0, <<"q", "u", "e", "r", "y">>) /\ SpacesBetween(text, 5, 6)

_is_simple_task(user_message) ==
    LET msg_lower == strip(lower(user_message))
    IN  \/ MatchesCompletion(msg_lower)
        \/ MatchesCreation(msg_lower)
        \/ MatchesConfirmation(msg_lower)
        \/ MatchesQuery(msg_lower)

_select_model_ignores_nudge(user_message, is_nudge) ==
    IF _is_simple_task(user_message) THEN MODEL_SONNET ELSE MODEL_OPUS

_select_model(user_message, is_nudge) ==
    IF is_nudge THEN MODEL_OPUS
    ELSE IF _is_simple_task(user_message) THEN MODEL_SONNET
    ELSE MODEL_OPUS

\* run_agent_loop: "is_simple = ...", "model = ...", "max_tools = ..."
selection(user_message, is_nudge) ==
    LET is_simple == _is_simple_task(user_message) /\ ~is_nudge
    IN  [is_simple |-> is_simple,
         model |-> IF is_simple THEN MODEL_SONNET
                   ELSE _select_model(user_message, is_nudge),
         max_tools |-> IF is_simple THEN MAX_TOOL_CALLS_SIMPLE ELSE MAX_TOOL_CALLS]

(***************************************************************************)
(* agent/tools.py: tool dispatch.  A tool-use block carries the name and   *)
(* the arguments the model chose; "handler" is what the named function     *)
(* does with them in the current environment (it returns a text or raises  *)
(* an Exception with a message).  restart_self is modelled from its code.  *)
(***************************************************************************)
CREATE_TODOIST_TASK == <<"c", "r", "e", "a", "t", "e", "_", "t", "o", "d", "o", "i", "s", "t", "_", "t", "a", "s", "k">>
RESTART_SELF == <<"r", "e", "s", "t", "a", "r", "t", "_", "s", "e", "l", "f">>

\* the names of TOOL_FUNCTIONS the model exercises
TOOL_FUNCTIONS == {CREATE_TODOIST_TASK, RESTART_SELF}

RESTART_CONFIRM == <<"I", " ", "j", "u", "s", "t", " ", "p", "u", "s", "h", "e", "d", " ", "c", "o", "d", "e">>

restart_self(confirm) ==
    IF confirm # RESTART_CONFIRM
    THEN [kind |-> "returned",
          text |-> <<"E", "r", "r", "o", "r", ":", " ", "r", "e", "s", "t", "a", "r", "t", "_", "s", "e", "l", "f", " ", "r", "e", "q", "u", "i", "r", "e", "s", " ", "c", "o", "n", "f", "i", "r", "m", "=", "'", "I", " ", "j", "u", "s", "t", " ", "p", "u", "s", "h", "e", "d", " ", "c", "o", "d", "e", "'", ".", " ", "O", "n", "l", "y", " ", "u", "s", "e", " ", "a", "f", "t", "e", "r", " ", "g", "i", "t", "_", "p", "u", "s", "h", ".">>]
    ELSE [kind |-> "exit", text |-> <<>>]

\* TOOL_FUNCTIONS[name](**arguments): "returned" with the text, "raised"
\* with the message of the Exception, or "exit" for SystemExit
call_tool_function(name, arguments, handler) ==
    IF name = RESTART_SELF THEN restart_self(arguments.confirm)
    ELSE IF handler.kind = "raises" THEN [kind |-> "raised", text |-> handler.text]
    ELSE [kind |-> "returned", text |-> handler.text]

execute_tool_uncaught(name, arguments, handler) ==
    IF name \notin TOOL_FUNCTIONS
    THEN [kind |-> "returned", text |-> <<"E", "r", "r", "o", "r", ":", " ", "U", "n", "k", "n", "o", "w", "n", " ", "t", "o", "o", "l", " ", "'">> \o name \o <<"'">>]
    ELSE call_tool_function(name, arguments, handler)

execute_tool(name, arguments, handler) ==
    IF name \notin TOOL_FUNCTIONS
    THEN [kind |-> "returned", text |-> <<"E", "r", "r", "o", "r", ":", " ", "U", "n", "k", "n", "o", "w", "n", " ", "t", "o", "o", "l", " ", "'">> \o name \o <<"'">>]
    ELSE LET out == call_tool_function(name, arguments, handler)
         IN  IF out.kind = "raised"
             THEN [kind |-> "returned",
                   text |-> <<"E", "r", "r", "o", "r", " ", "e", "x", "e", "c", "u", "t", "i", "n", "g", " ">> \o name \o <<":", " ">> \o out.text]
             ELSE out

\* the journal lines _execute_tool_block writes are left out here
_execute_tool_block(tool_block) ==
    execute_tool(tool_block.name, tool_block.arguments, tool_block.handler)

\* [_execute_tool_block(block) for block in tool_use_blocks]: the results so
\* far, and how the comprehension ended
RECURSIVE ExecuteBlocks(_, _)
ExecuteBlocks(blocks, results) ==
    IF blocks = <<>> THEN [kind |-> "returned", results |-> results]
    ELSE LET out == _execute_tool_block(Head(blocks))
         IN  IF out.kind = "returned"
             THEN ExecuteBlocks(Tail(blocks), Append(results, out.text))
             ELSE [kind |-> out.kind, results |-> results]

(***************************************************************************)
(* agent/loop.py: run_agent_loop and run_agent_loop_interactive.           *)
(***************************************************************************)
\* the responses of the model: text blocks ...
NoArguments == [confirm |-> <<>>]
Returns(text) == [kind |-> "returns", text |-> text]
Raises(message) == [kind |-> "raises", text |-> message]

Pad(n) == [i \in 1..n |-> "."]

TextBlockChoices ==
    {<<>>,
     <<<<" ", " ">>>>,
     <<<<"L", "e", "t", " ", "m", "e", " ", "c", "h", "e", "c", "k", " ", "y", "o", "u", "r", " ", "t", "a", "s", "k", "s", ".", ".", ".">>>>,
     <<<<"D", "o", "n", "e", " ", "-", " ", "I", " ", "a", "d", "d", "e", "d", " ", "t", "h", "e", " ", "t", "a", "s", "k", ".">>>>,
     <<<<"D", "o", "n", "e", ".">>, <<"N", "e", "x", "t", ":">>>>,
     <<<<"I", "'", "l", "l", " ", "l", "o", "o", "k", ".", " ">> \o Pad(TAIL_CHARS) \o <<" ", "D", "o", "n", "e", ".">>>>}

\* ... and tool-use blocks
PlainCall ==
    [name |-> CREATE_TODOIST_TASK, arguments |-> NoArguments,
     handler |-> Returns(<<"C", "r", "e", "a", "t", "e", "d", " ", "t", "a", "s", "k", ":", " ", "X", " ", "[", "I", "D", ":", "1", "]">>)]

ToolUseBlocks ==
    {PlainCall,
     [name |-> CREATE_TODOIST_TASK, arguments |-> NoArguments,
      handler |-> Returns(<<"E", "r", "r", "o", "r", ":", " ", "n", "o", "t", " ", "f", "o", "u", "n", "d">>)],
     [name |-> CREATE_TODOIST_TASK, arguments |-> NoArguments,
      handler |-> Raises(<<"b", "o", "o", "m">>)],
     [name |-> <<"b", "o", "g", "u", "s">>, arguments |-> NoArguments,
      handler |-> Returns(<<>>)],
     [name |-> RESTART_SELF, arguments |-> [confirm |-> RESTART_CONFIRM],
      handler |-> Returns(<<>>)],
     [name |-> RESTART_SELF, arguments |-> [confirm |-> <<"y", "e", "s">>],
      handler |-> Returns(<<>>)]}

\* bounds: tool-use blocks per response, the counter values explored, and the
\* number of model calls answered from the full set of responses
MaxBlocks == 2
MaxCounter == 22
MaxRichTurns == 1

\* a response: text blocks and n tool-use blocks, all of them PlainCall except
\* the block at position pos (none when pos = 0)
RECURSIVE BlocksWith(_, _, _)
BlocksWith(n, pos, block) ==
    IF n = 0 THEN <<>>
    ELSE Append(BlocksWith(n - 1, pos, block), IF n = pos THEN block ELSE PlainCall)

Response(texts, n, pos, block) ==
    [text_blocks |-> texts, tool_use_blocks |-> BlocksWith(n, pos, block)]

\* the responses that drive the counter: with or without a final text, tools
\* that succeed or fail
BudgetTextBlocks == {<<>>, <<<<"D", "o", "n", "e", " ", "-", " ", "I", " ", "a", "d", "d", "e", "d", " ", "t", "h", "e", " ", "t", "a", "s", "k", ".">>>>}

BudgetBlocks ==
    {b \in ToolUseBlocks : b.name = CREATE_TODOIST_TASK /\ b.handler.kind = "returns"}

\* the first MaxRichTurns model calls are answered from the full choice of
\* texts and blocks, the later ones from the choice that drives the counter
TextsAt(calls) == IF calls <= MaxRichTurns THEN TextBlockChoices ELSE BudgetTextBlocks

BlocksAt(calls) == IF calls <= MaxRichTurns THEN ToolUseBlocks ELSE BudgetBlocks

Returned(kind) == [kind |-> kind, text |-> <<>>]

\* "while tool_calls < max_tools"
loop_continues_unless_equal(calls, budget) == calls # budget

loop_continues(calls, budget) == calls < budget

\* "if tool_calls >= MAX_TOOL_CALLS and tool_calls % MAX_TOOL_CALLS == 0"
checkpoint_due(calls) == calls >= MAX_TOOL_CALLS /\ calls % MAX_TOOL_CALLS = 0

\* "if text_blocks and all_succeeded and not _is_intent_text(response_text)"
early_return_ignores_intent(blocks, results) ==
    LET all_succeeded == \A i \in 1..Len(results) : _tool_succeeded(results[i])
    IN  blocks # <<>> /\ all_succeeded

early_return(blocks, results) ==
    LET all_succeeded == \A i \in 1..Len(results) : _tool_succeeded(results[i])
        response_text == IF blocks # <<>> THEN join(blocks) ELSE <<>>
    IN  blocks # <<>> /\ all_succeeded /\ ~_is_intent_text(response_text)

\* block.id: the API gives every tool-use block an id of its own; here the
\* number of the model call that produced the block and its position
WithIds(blocks, call) ==
    [i \in 1..Len(blocks) |->
        [id |-> <<call, i>>, name |-> blocks[i].name,
         arguments |-> blocks[i].arguments, handler |-> blocks[i].handler]]

\* {"type": "tool_result", "tool_use_id": tool_block.id, "content": result}
tool_result_without_id(tool_block, content) ==
    [tool_use_id |-> <<0, 0>>, content |-> content]

tool_result(tool_block, content) ==
    [tool_use_id |-> tool_block.id, content |-> content]

\* the tool_use_id of the results built for the first Len(results) blocks
ResultIds(blocks, results) ==
    [i \in 1..Len(results) |-> tool_result(blocks[i], results[i]).tool_use_id]

\* the ids of the first n blocks
BlockIds(blocks, n) == [i \in 1..n |-> blocks[i].id]

\* "except Exception as e: logger.exception(...); return 'I encountered an
\* error communicating with my brain. Please try again.'"
on_api_error_reraised == [pc |-> "raised", result |-> NoResult]

on_api_error == [pc |-> "done", result |-> Returned("api_error")]

OtherVars == <<preVars, botVars, sessVars, ctxVars, textVars, restVars>>

\* what run_agent_loop never touches
SessionVars == <<cancelled, tool_log_len, cancel_mark>>

\* run_agent_loop up to its first model call
PlainStart(has_key, user_message, is_nudge) ==
    /\ loop_mode = "plain"
    /\ loop_pc = "start"
    /\ loop_event' = "start"
    /\ IF ~has_key
       THEN /\ loop_pc' = "done"
            /\ loop_result' = Returned("not_configured")
            /\ UNCHANGED <<max_tools, model_calls>>
       ELSE /\ max_tools' = selection(user_message, is_nudge).max_tools
            /\ IF loop_continues(tool_calls, max_tools')
               THEN /\ loop_pc' = "await_model"
                    /\ model_calls' = model_calls + 1
                    /\ loop_result' = loop_result
               ELSE /\ loop_pc' = "done"
                    /\ loop_result' = Returned("too_many")
                    /\ model_calls' = model_calls
    /\ UNCHANGED <<loop_mode, has_checkpoint, tool_calls, text_blocks,
                   tool_use_blocks, tool_results, checkpoint_at, fed_back,
                   fed_ids, dispatched, tools_run>>
    /\ UNCHANGED SessionVars
    /\ UNCHANGED OtherVars

\* client.messages.create raised
PlainModelFails ==
    /\ loop_mode = "plain"
    /\ loop_pc = "await_model"
    /\ loop_pc' = on_api_error.pc
    /\ loop_result' = on_api_error.result
    /\ loop_event' = "api_error"
    /\ UNCHANGED <<loop_mode, has_checkpoint, max_tools, tool_calls, model_calls,
                   text_blocks, tool_use_blocks, tool_results, checkpoint_at,
                   fed_back, fed_ids, dispatched, tools_run>>
    /\ UNCHANGED SessionVars
    /\ UNCHANGED OtherVars

\* the response arrives; everything up to the next model call or the return
\* runs without an await
PlainModelResponds(response) ==
    /\ loop_mode = "plain"
    /\ loop_pc = "await_model"
    /\ LET blocks == WithIds(response.tool_use_blocks, model_calls)
       IN
       /\ text_blocks' = response.text_blocks
       /\ tool_use_blocks' = blocks
       /\ IF blocks = <<>>
          THEN /\ loop_pc' = "done"
               /\ loop_result' = [kind |-> "final", text |-> join(response.text_blocks)]
               /\ loop_event' = "final"
               /\ tool_results' = <<>>
               /\ dispatched' = <<>>
               /\ UNCHANGED <<tool_calls, model_calls, fed_back, fed_ids, tools_run>>
          ELSE LET run == ExecuteBlocks(blocks, <<>>)
                   calls == tool_calls + Len(run.results)
                   \* a block that raised or exited was dispatched too
                   started == IF run.kind = "returned" THEN Len(run.results)
                              ELSE Len(run.results) + 1
               IN  /\ tool_results' = run.results
                   /\ dispatched' = BlockIds(blocks, started)
                   /\ tools_run' = tools_run + started
                   /\ IF run.kind # "returned"
                      THEN /\ loop_pc' = IF run.kind = "exit" THEN "exited" ELSE "raised"
                           /\ loop_event' = "tool"
                           /\ UNCHANGED <<tool_calls, model_calls, loop_result,
                                          fed_back, fed_ids>>
                      ELSE /\ tool_calls' = calls
                           /\ loop_event' = "tool_turn"
                           /\ IF early_return(response.text_blocks, run.results)
                              THEN /\ loop_pc' = "done"
                                   /\ loop_result' = [kind |-> "early",
                                                 text |-> join(response.text_blocks)]
                                   /\ UNCHANGED <<model_calls, fed_back, fed_ids>>
                              ELSE /\ fed_back' = run.results
                                   /\ fed_ids' = ResultIds(blocks, run.results)
                                   /\ IF loop_continues(calls, max_tools)
                                      THEN /\ loop_pc' = "await_model"
                                           /\ model_calls' = model_calls + 1
                                           /\ loop_result' = loop_result
                                      ELSE /\ loop_pc' = "done"
                                           /\ loop_result' = Returned("too_many")
                                           /\ model_calls' = model_calls
    /\ UNCHANGED <<loop_mode, has_checkpoint, max_tools, checkpoint_at>>
    /\ UNCHANGED SessionVars
    /\ UNCHANGED OtherVars

(***************************************************************************)
(* handlers/conversation.py: the owner's messages during a session.        *)
(***************************************************************************)
CANCEL_KEYWORDS == {<<"s", "t", "o", "p">>, <<"c", "a", "n", "c", "e", "l">>}

CONTINUE_KEYWORDS == {<<"y", "e", "s">>, <<"c", "o", "n", "t", "i", "n", "u", "e">>, <<"g", "o">>, <<"o", "k">>, <<"k", "e", "e", "p", " ", "g", "o", "i", "n", "g">>}

\* "content = msg.content.strip().lower()"
listened(msg) == lower(strip(msg))

\* InteractiveSession.check_cancelled
check_cancelled_never(flag) == FALSE

check_cancelled(flag) == flag

\* InteractiveSession.on_checkpoint from the wait on: response is None when
\* the wait timed out, Some(content) when the listener queued a message
on_checkpoint(response) ==
    IF response = None THEN FALSE
    ELSE IF response[1] \in CANCEL_KEYWORDS THEN FALSE
    ELSE IF response[1] \in CONTINUE_KEYWORDS THEN TRUE
    ELSE TRUE

\* what the owner writes during a session
OwnerMessages == {<<"s", "t", "o", "p">>, <<" ", "C", "a", "n", "c", "e", "l">>, <<"y", "e", "s">>, <<"K", "e", "e", "p", " ", "g", "o", "i", "n", "g", " ">>, <<"w", "h", "a", "t", "?">>, <<"s", "t", "o", "p", " ", "i", "t">>}

\* the listener sets the flag on a cancel keyword
Marked(flag) ==
    IF flag /\ cancel_mark = None
    THEN Some([calls |-> model_calls, tools |-> tools_run])
    ELSE cancel_mark

\* _listen_for_messages receives a cancel keyword while the loop is suspended
\* in the model call, in on_tool_start, in on_tool_end (the loop then stands
\* before its next poll) or in the status edit of on_checkpoint; the queued
\* copy is dropped by the drain of on_checkpoint
OwnerCancels(msg) ==
    /\ loop_mode = "interactive"
    /\ \/ loop_pc \in {"await_model", "tool_start", "await_checkpoint"}
       \/ loop_pc \in {"tools", "loop_head"} /\ tool_results # <<>>
    /\ listened(msg) \in CANCEL_KEYWORDS
    /\ ~cancelled
    /\ cancelled' = TRUE
    /\ cancel_mark' = Some([calls |-> model_calls, tools |-> tools_run])
    /\ loop_event' = "owner"
    /\ UNCHANGED <<loop_mode, has_checkpoint, max_tools, loop_pc, tool_calls,
                   model_calls, text_blocks, tool_use_blocks, tool_results,
                   loop_result, checkpoint_at, fed_back, fed_ids, dispatched,
                   tools_run, tool_log_len>>
    /\ UNCHANGED OtherVars

\* run_agent_loop_interactive up to the top of "while True"
InteractiveStart(has_key, with_checkpoint) ==
    /\ loop_mode = "interactive"
    /\ loop_pc = "start"
    /\ loop_event' = "start"
    /\ has_checkpoint' = with_checkpoint
    /\ IF ~has_key
       THEN /\ loop_pc' = "done"
            /\ loop_result' = Returned("not_configured")
       ELSE /\ loop_pc' = "loop_head"
            /\ loop_result' = loop_result
    /\ UNCHANGED <<loop_mode, max_tools, tool_calls, model_calls, text_blocks,
                   tool_use_blocks, tool_results, checkpoint_at, fed_back,
                   fed_ids, dispatched, tools_run>>
    /\ UNCHANGED SessionVars
    /\ UNCHANGED OtherVars

\* the poll at the top of the loop; then the checkpoint test
InteractiveHead ==
    /\ loop_mode = "interactive"
    /\ loop_pc = "loop_head"
    /\ IF check_cancelled(cancelled)
       THEN /\ loop_pc' = "done"
            /\ loop_result' = Returned("cancelled")
            /\ loop_event' = "cancelled"
            /\ model_calls' = model_calls
       ELSE IF checkpoint_due(tool_calls)
       THEN IF has_checkpoint
            THEN /\ loop_pc' = "await_checkpoint"
                 /\ loop_event' = "checkpoint"
                 /\ UNCHANGED <<loop_result, model_calls>>
            ELSE /\ loop_pc' = "done"
                 /\ loop_result' = Returned("too_many")
                 /\ loop_event' = "checkpoint"
                 /\ model_calls' = model_calls
       ELSE /\ loop_pc' = "await_model"
            /\ model_calls' = model_calls + 1
            /\ loop_event' = "model_call"
            /\ loop_result' = loop_result
    /\ UNCHANGED <<loop_mode, has_checkpoint, max_tools, tool_calls, text_blocks,
                   tool_use_blocks, tool_results, checkpoint_at, fed_back,
                   fed_ids, dispatched, tools_run>>
    /\ UNCHANGED SessionVars
    /\ UNCHANGED OtherVars

\* on_checkpoint: the status edit returned and the queue is drained; the wait
\* for the owner's reply begins
InteractiveCheckpointPosted ==
    /\ loop_mode = "interactive"
    /\ loop_pc = "await_checkpoint"
    /\ loop_pc' = "checkpoint_wait"
    /\ loop_event' = "posted"
    /\ UNCHANGED <<loop_mode, has_checkpoint, max_tools, tool_calls, model_calls,
                   text_blocks, tool_use_blocks, tool_results, loop_result,
                   checkpoint_at, fed_back, fed_ids, dispatched, tools_run>>
    /\ UNCHANGED SessionVars
    /\ UNCHANGED OtherVars

\* the wait of on_checkpoint ends: reply is None on its timeout, Some(msg)
\* when the owner wrote msg, which the listener also tests for a cancel keyword
InteractiveCheckpoint(reply) ==
    /\ loop_mode = "interactive"
    /\ loop_pc = "checkpoint_wait"
    /\ loop_event' = "decision"
    /\ LET response == IF reply = None THEN None ELSE Some(listened(reply[1]))
           flag == response # None /\ response[1] \in CANCEL_KEYWORDS
           should_continue == on_checkpoint(response)
       IN  /\ cancelled' = (cancelled \/ flag)
           /\ cancel_mark' = Marked(flag)
           /\ IF should_continue
              THEN /\ loop_pc' = "await_model"
                   /\ model_calls' = model_calls + 1
                   /\ checkpoint_at' = tool_calls
                   /\ loop_result' = loop_result
              ELSE /\ loop_pc' = "done"
                   /\ loop_result' = Returned("stopped")
                   /\ UNCHANGED <<model_calls, checkpoint_at>>
    /\ UNCHANGED <<loop_mode, has_checkpoint, max_tools, tool_calls, text_blocks,
                   tool_use_blocks, tool_results, fed_back, fed_ids, dispatched,
                   tools_run, tool_log_len>>
    /\ UNCHANGED OtherVars

InteractiveModelFails ==
    /\ loop_mode = "interactive"
    /\ loop_pc = "await_model"
    /\ loop_pc' = on_api_error.pc
    /\ loop_result' = on_api_error.result
    /\ loop_event' = "api_error"
    /\ UNCHANGED <<loop_mode, has_checkpoint, max_tools, tool_calls, model_calls,
                   text_blocks, tool_use_blocks, tool_results, checkpoint_at,
                   fed_back, fed_ids, dispatched, tools_run>>
    /\ UNCHANGED SessionVars
    /\ UNCHANGED OtherVars

\* the response arrives; a response with tools goes on to the poll before its
\* first block
InteractiveModelResponds(response) ==
    /\ loop_mode = "interactive"
    /\ loop_pc = "await_model"
    /\ text_blocks' = response.text_blocks
    /\ tool_use_blocks' = WithIds(response.tool_use_blocks, model_calls)
    /\ tool_results' = <<>>
    /\ dispatched' = <<>>
    /\ IF response.tool_use_blocks = <<>>
       THEN /\ loop_pc' = "done"
            /\ loop_result' = [kind |-> "final", text |-> join(response.text_blocks)]
            /\ loop_event' = "final"
       ELSE /\ loop_pc' = "tools"
            /\ loop_result' = loop_result
            /\ loop_event' = "response"
    /\ UNCHANGED <<loop_mode, has_checkpoint, max_tools, tool_calls, model_calls,
                   checkpoint_at, fed_back, fed_ids, tools_run>>
    /\ UNCHANGED SessionVars
    /\ UNCHANGED OtherVars

\* "for block in tool_use_blocks" up to on_tool_start: the poll, then the
\* block's entry in tool_log
InteractiveToolStart ==
    /\ loop_mode = "interactive"
    /\ loop_pc = "tools"
    /\ IF check_cancelled(cancelled)
       THEN /\ loop_pc' = "done"
            /\ loop_result' = Returned("cancelled")
            /\ loop_event' = "cancelled"
            /\ tool_log_len' = tool_log_len
       ELSE /\ loop_pc' = "tool_start"
            /\ loop_result' = loop_result
            /\ loop_event' = "tool_start"
            /\ tool_log_len' = tool_log_len + 1
    /\ UNCHANGED <<loop_mode, has_checkpoint, max_tools, tool_calls, model_calls,
                   text_blocks, tool_use_blocks, tool_results, checkpoint_at,
                   fed_back, fed_ids, dispatched, tools_run, cancelled,
                   cancel_mark>>
    /\ UNCHANGED OtherVars

\* on_tool_start returned: the tool, on_tool_end, the result appended; after
\* the last block the counter and the early return
InteractiveTool ==
    /\ loop_mode = "interactive"
    /\ loop_pc = "tool_start"
    /\ LET block == tool_use_blocks[Len(tool_results) + 1]
           out == execute_tool(block.name, block.arguments, block.handler)
           results == Append(tool_results, out.text)
       IN  /\ dispatched' = Append(dispatched, block.id)
           /\ tools_run' = tools_run + 1
           /\ IF out.kind # "returned"
              THEN /\ loop_pc' = IF out.kind = "exit" THEN "exited" ELSE "raised"
                   /\ loop_event' = "tool"
                   /\ UNCHANGED <<tool_calls, tool_results, loop_result, fed_back,
                                  fed_ids>>
              ELSE /\ tool_results' = results
                   /\ IF Len(results) < Len(tool_use_blocks)
                      THEN /\ loop_pc' = "tools"
                           /\ loop_event' = "tool"
                           /\ UNCHANGED <<tool_calls, loop_result, fed_back, fed_ids>>
                      ELSE /\ tool_calls' = tool_calls + Len(results)
                           /\ loop_event' = "tool_turn"
                           /\ IF early_return(text_blocks, results)
                              THEN /\ loop_pc' = "done"
                                   /\ loop_result' = [kind |-> "early",
                                                 text |-> join(text_blocks)]
                                   /\ UNCHANGED <<fed_back, fed_ids>>
                              ELSE /\ loop_pc' = "loop_head"
                                   /\ loop_result' = loop_result
                                   /\ fed_back' = results
                                   /\ fed_ids' = ResultIds(tool_use_blocks, results)
    /\ UNCHANGED <<loop_mode, has_checkpoint, max_tools, model_calls, text_blocks,
                   tool_use_blocks, checkpoint_at>>
    /\ UNCHANGED SessionVars
    /\ UNCHANGED OtherVars

\* the messages run_agent_loop is called with
UserMessages == {<<"m", "a", "r", "k", " ", "t", "a", "s", "k", " ", "4", "2", " ", "d", "o", "n", "e">>, <<"W", "h", "a", "t", " ", "s", "h", "o", "u", "l", "d", " ", "I", " ", "d", "o", " ", "t", "o", "d", "a", "y", "?">>}

\* what the owner answers at a checkpoint: nothing within the timeout, or a
\* message
Replies == {None} \cup {Some(msg) : msg \in OwnerMessages}

NextPlain ==
    \/ \E has_key, is_nudge \in BOOLEAN, user_message \in UserMessages :
           PlainStart(has_key, user_message, is_nudge)
    \/ PlainModelFails
    \/ \E texts \in TextsAt(model_calls), n \in 0..MaxBlocks :
           \E pos \in 0..n, block \in BlocksAt(model_calls) :
               /\ pos = 0 => block = PlainCall
               /\ tool_calls + n <= MaxCounter
               /\ PlainModelResponds(Response(texts, n, pos, block))

NextInteractive ==
    \/ \E has_key, with_checkpoint \in BOOLEAN :
           InteractiveStart(has_key, with_checkpoint)
    \/ InteractiveHead
    \/ InteractiveCheckpointPosted
    \/ \E reply \in Replies : InteractiveCheckpoint(reply)
    \/ InteractiveModelFails
    \/ \E texts \in TextsAt(model_calls), n \in 0..MaxBlocks :
           \E pos \in 0..n, block \in BlocksAt(model_calls) :
               /\ pos = 0 => block = PlainCall
               /\ tool_calls + n <= MaxCounter
               /\ InteractiveModelResponds(Response(texts, n, pos, block))
    \/ InteractiveToolStart
    \/ InteractiveTool

InitLoopOther ==
    /\ InitPreempt
    /\ InitTextFixed
    /\ InitRestFixed
    /\ InitBotVars
    /\ InitSessFixed
    /\ InitCtxFixed
    /\ has_checkpoint = FALSE
    /\ max_tools = MAX_TOOL_CALLS
    /\ loop_pc = "start"
    /\ tool_calls = 0
    /\ model_calls = 0
    /\ text_blocks = <<>>
    /\ tool_use_blocks = <<>>
    /\ tool_results = <<>>
    /\ loop_result = NoResult
    /\ checkpoint_at = 0
    /\ loop_event = "none"
    /\ fed_back = <<>>
    /\ fed_ids = <<>>
    /\ dispatched = <<>>
    /\ tools_run = 0
    /\ cancelled = FALSE
    /\ tool_log_len = 0
    /\ cancel_mark = None

InitPlain == InitLoopOther /\ loop_mode = "plain"

InitLoop == InitLoopOther /\ loop_mode \in {"plain", "interactive"}

NextLoop == NextPlain \/ NextInteractive

\* one invocation of either loop
SpecLoop == InitLoop /\ [][NextLoop]_vars

\* one invocation of run_agent_loop; the awaited model call returns or raises
SpecPlain == InitPlain /\ [][NextPlain]_vars /\ WF_vars(NextPlain)

\* bound: the counter values explored in a session with its owner
MaxSessionCounter == 42

InitSession == InitLoopOther /\ loop_mode = "interactive"

\* run_agent_loop_interactive called by handle_message_sdk, and the owner
\* writing meanwhile; the model answers with plain tool calls
NextSession ==
    \/ \E has_key, with_checkpoint \in BOOLEAN :
           InteractiveStart(has_key, with_checkpoint)
    \/ InteractiveHead
    \/ InteractiveCheckpointPosted
    \/ \E reply \in Replies : InteractiveCheckpoint(reply)
    \/ InteractiveModelFails
    \/ \E texts \in BudgetTextBlocks, n \in 0..MaxBlocks :
           /\ tool_calls + n <= MaxSessionCounter
           /\ InteractiveModelResponds(Response(texts, n, 0, PlainCall))
    \/ InteractiveToolStart
    \/ InteractiveTool
    \/ \E msg \in OwnerMessages : OwnerCancels(msg)

SpecSession == InitSession /\ [][NextSession]_vars

(***************************************************************************)
(* The functions on texts, applied to sample texts: _tool_succeeded,       *)
(* _is_intent_text, and the selection of model and budget.                 *)
(***************************************************************************)
UpperOf ==
    [c \in {LowerCase[i] : i \in 1..Len(LowerCase)} |->
        UpperCase[CHOOSE i \in 1..Len(LowerCase) : LowerCase[i] = c]]

\* str.upper()
upper(text) ==
    [i \in 1..Len(text) |-> IF text[i] \in DOMAIN UpperOf THEN UpperOf[text[i]] ELSE text[i]]

\* tool results
ResultSamples ==
    {<<"C", "r", "e", "a", "t", "e", "d", " ", "t", "a", "s", "k", ":", " ", "X", " ", "[", "I", "D", ":", "1", "]">>, <<"E", "r", "r", "o", "r", ":", " ", "n", "o", "t", " ", "f", "o", "u", "n", "d">>, <<"E", "x", "c", "e", "p", "t", "i", "o", "n", ":", " ", "b", "o", "o", "m">>,
     <<"T", "a", "s", "k", " ", "f", "a", "i", "l", "e", "d", ":", " ", "n", "o", " ", "p", "r", "o", "j", "e", "c", "t">>, <<"P", "e", "r", "m", "i", "s", "s", "i", "o", "n", " ", "d", "e", "n", "i", "e", "d">>, <<"4", "0", "1", " ", "U", "n", "a", "u", "t", "h", "o", "r", "i", "z", "e", "d">>,
     <<"R", "e", "q", "u", "e", "s", "t", " ", "t", "i", "m", "e", "o", "u", "t">>, <<"C", "o", "u", "l", "d", " ", "n", "o", "t", " ", "c", "o", "n", "n", "e", "c", "t">>, <<"U", "n", "a", "b", "l", "e", " ", "t", "o", " ", "s", "a", "v", "e">>,
     <<"N", "o", " ", "e", "r", "r", "o", "r", "s">>, <<"E", "r", "r", "o", "r", " ", "e", "x", "e", "c", "u", "t", "i", "n", "g", " ", "c", "r", "e", "a", "t", "e", "_", "t", "o", "d", "o", "i", "s", "t", "_", "t", "a", "s", "k", ":", " ", "b", "o", "o", "m">>,
     <<"E", "x", "c", "e", "p", "t", "i", "o", "n", "a", "l", " ", "w", "o", "r", "k">>, <<"L", "o", "s", "t", " ", "a", "n", "d", " ", "f", "o", "u", "n", "d">>, <<"D", "e", "l", "e", "t", "e", "d", " ", "3", " ", "t", "a", "s", "k", "s">>}

\* texts of the model
TextSamples ==
    {<<>>, <<"L", "e", "t", " ", "m", "e", " ", "c", "h", "e", "c", "k", " ", "y", "o", "u", "r", " ", "t", "a", "s", "k", "s", ".", ".", ".">>, <<"D", "o", "n", "e", " ", "-", " ", "I", " ", "a", "d", "d", "e", "d", " ", "t", "h", "e", " ", "t", "a", "s", "k", ".">>,
     <<"N", "e", "x", "t", ":">>, <<"I", "'", "l", "l", " ", "d", "o", " ", "i", "t", " ", "n", "o", "w">>, <<"I", " ", "w", "i", "l", "l", " ", "a", "d", "d", " ", "i", "t">>, <<"I", "'", "m", " ", "g", "o", "i", "n", "g", " ", "t", "o", " ", "l", "o", "o", "k">>,
     <<"L", "e", "t", "'", "s", " ", "s", "e", "e">>, <<"L", "e", "t", " ", "m", "e">>, <<"T", "e", "l", "l", " ", "m", "e", " ", "m", "o", "r", "e">>, <<"T", "h", "e", " ", "o", "u", "t", "l", "e", "t", " ", "m", "e", " ", "a", "n", "d", " ", "y", "o", "u">>,
     <<"l", "e", "t", " ", "m", "e", " ">> \o Pad(TAIL_CHARS - 7), <<"L", "e", "t", " ", "m", "e", " ">> \o Pad(TAIL_CHARS - 6),
     <<"I", "'", "l", "l", " ", "l", "o", "o", "k", ".", " ">> \o Pad(TAIL_CHARS) \o <<" ", "D", "o", "n", "e", ".">>}

\* messages of the owner
MessageSamples ==
    {<<"m", "a", "r", "k", " ", "t", "a", "s", "k", " ", "4", "2", " ", "d", "o", "n", "e">>, <<"m", "a", "r", "k", " ", "i", "t", " ", "u", "n", "d", "o", "n", "e">>,
     <<"m", "a", "r", "k", " ", "a", "l", "l", " ", "o", "f", " ", "t", "h", "e", " ", "s", "h", "o", "p", "p", "i", "n", "g", " ", "i", "t", "e", "m", "s", " ", "u", "n", "d", "o", "n", "e">>, <<"a", "d", "d", " ", "a", " ", "t", "a", "s", "k", " ", "b", "u", "y", " ", "m", "i", "l", "k">>,
     <<"c", "r", "e", "a", "t", "e", " ", " ", "r", "e", "m", "i", "n", "d", "e", "r">>, <<"H", "o", "w", " ", "d", "o", " ", "I", " ", "m", "a", "k", "e", " ", "a", " ", "t", "o", "d", "o", " ", "l", "i", "s", "t", "?">>, <<"a", "d", "d", " ", "t", "a", "s", "k">>,
     <<"a", "d", "d", "a", " ", "t", "a", "s", "k">>, <<"a", "d", "d", " ", "a", " ", "t", "a", "s", "k", "s">>, <<"y", "e", "s">>, <<"o", "k", "a", "y">>, <<"o", "k", " ", "t", "h", "a", "n", "k", "s">>, <<"n", "o">>,
     <<"n", "o", "t", "e", " ", "t", "h", "i", "s">>, <<"d", "o", " ", "i", "t">>, <<"g", "o", " ", "a", "h", "e", "a", "d">>, <<"s", "o", "u", "n", "d", "s", " ", "g", "o", "o", "d", "!">>, <<"q", "u", "e", "r", "y", " ", "#", "w", "o", "r", "k">>,
     <<"q", "u", "e", "r", "y">>, <<"q", "u", "e", "r", "y", "x", " ", "y">>, <<"W", "h", "a", "t", " ", "s", "h", "o", "u", "l", "d", " ", "I", " ", "d", "o", " ", "t", "o", "d", "a", "y", "?">>, <<"I", "'", "m", " ", "d", "o", "n", "e">>,
     <<"c", "o", "n", "d", "o", "n", "e", " ", "i", "t">>, <<"c", "h", "e", "c", "k", " ", "o", "f", "f", " ", "m", "i", "l", "k">>, <<"c", "l", "o", "s", "e", " ", "t", "h", "e", " ", "l", "o", "o", "p">>, <<"f", "i", "n", "i", "s", "h", "e", "d", " ", "i", "t">>}

\* bound: the spaces put before a sample
MaxLead == 1

Lead(k) == [i \in 1..k |-> " "]

Trails == {<<>>, <<" ">>, <<":">>}

Cores == ResultSamples \cup TextSamples \cup MessageSamples

Samples ==
    LET padded == {Lead(k) \o core \o trail :
                       k \in 0..MaxLead, core \in Cores, trail \in Trails}
    IN  padded \cup {upper(text) : text \in padded}

InitText ==
    /\ InitPreempt
    /\ InitBotVars
    /\ InitSessFixed
    /\ InitCtxFixed
    /\ InitLoopFixed
    /\ sample \in Samples
    /\ sample_nudge \in BOOLEAN
    /\ verdict = NoVerdict
    /\ InitRestFixed

NonTextVars == <<preVars, botVars, sessVars, ctxVars, loopVars, restVars>>

\* success = _tool_succeeded(result)
JudgeToolResult ==
    /\ verdict = NoVerdict
    /\ verdict' = [op |-> "tool_succeeded", flag |-> _tool_succeeded(sample),
                   model |-> "none", budget |-> 0]
    /\ UNCHANGED <<sample, sample_nudge>>
    /\ UNCHANGED NonTextVars

\* _is_intent_text(response_text)
ClassifyText ==
    /\ verdict = NoVerdict
    /\ verdict' = [op |-> "is_intent_text", flag |-> _is_intent_text(sample),
                   model |-> "none", budget |-> 0]
    /\ UNCHANGED <<sample, sample_nudge>>
    /\ UNCHANGED NonTextVars

\* run_agent_loop(user_message, is_nudge=...) choosing model and budget
SelectModel ==
    /\ verdict = NoVerdict
    /\ LET chosen == selection(sample, sample_nudge)
       IN  verdict' = [op |-> "select", flag |-> _is_simple_task(sample),
                       model |-> chosen.model, budget |-> chosen.max_tools]
    /\ UNCHANGED <<sample, sample_nudge>>
    /\ UNCHANGED NonTextVars

NextText == JudgeToolResult \/ ClassifyText \/ SelectModel

SpecText == InitText /\ [][NextText]_vars

(***************************************************************************)
(* C1: run_agent_loop, whatever the model answers and however many tool    *)
(* blocks a turn carries: the tool-call counter never decreases, no model  *)
(* call is issued once the counter has reached the budget, at most         *)
(* `budget` model calls are made, the invocation ends, and when it ends    *)
(* with the counter at or over the budget it returns the fixed message     *)
(* unless the early return fired on the turn that reached the budget.      *)
(***************************************************************************)
C1_BudgetTermination ==
    /\ [][tool_calls' >= tool_calls]_vars
    /\ [](loop_pc = "await_model" => tool_calls < max_tools)
    /\ [](model_calls <= max_tools)
    /\ []((loop_pc = "done" /\ tool_calls >= max_tools) =>
              \/ loop_result.kind = "too_many"
              \/ /\ loop_result.kind = "early"
                 /\ loop_event = "tool_turn"
                 /\ early_return(text_blocks, tool_results))
    /\ [](loop_result.kind = "too_many" => tool_calls >= max_tools)
    /\ <>(loop_pc \in {"done", "exited"})

\* five turns of one tool each exhaust the budget of a simple request
C1_Witness ==
    /\ loop_mode = "plain"
    /\ loop_pc = "done"
    /\ loop_result.kind = "too_many"
    /\ max_tools = MAX_TOOL_CALLS_SIMPLE
    /\ model_calls = max_tools
    /\ tool_calls = max_tools

\* C1 as stated: whenever the invocation has ended with the counter at or
\* over the budget, what it returned is the fixed "too many tool calls" message
C1_FixedMessageAtBudget ==
    (loop_mode = "plain" /\ loop_pc = "done" /\ tool_calls >= max_tools) =>
        loop_result.kind = "too_many"

(***************************************************************************)
(* C2: in both loops, once the tools of a turn have been executed, the     *)
(* loop returns the turn's joined text without another model call exactly  *)
(* when the response had text blocks, every tool result is judged          *)
(* successful and the joined text is not intent text; a turn without text  *)
(* or with only whitespace text always continues, and intent narration is  *)
(* never the result of a tool turn.                                        *)
(***************************************************************************)
C2_EarlyReturn ==
    loop_event = "tool_turn" =>
        LET joined == join(text_blocks)
            gate == /\ text_blocks # <<>>
                    /\ \A i \in 1..Len(tool_results) : _tool_succeeded(tool_results[i])
                    /\ ~_is_intent_text(joined)
        IN  /\ gate <=> (loop_pc = "done" /\ loop_result = [kind |-> "early", text |-> joined])
            /\ ~gate => /\ loop_result.kind \in {"none", "too_many"}
                        /\ fed_back = tool_results
                        /\ loop_mode = "interactive" => loop_pc = "loop_head"
                        /\ (loop_mode = "plain" /\ tool_calls < max_tools) =>
                               loop_pc = "await_model"
            /\ (text_blocks = <<>> \/ strip(joined) = <<>>) =>
                   loop_result.kind \in {"none", "too_many"}
            /\ loop_result.kind = "early" =>
                   /\ ~endswith(strip(joined), <<":">>)
                   /\ joined # <<"L", "e", "t", " ", "m", "e", " ", "c", "h", "e", "c", "k", " ", "y", "o", "u", "r", " ", "t", "a", "s", "k", "s", ".", ".", ".">>

\* an interactive turn of two successful tools and a final text returns early
C2_Witness ==
    /\ loop_mode = "interactive"
    /\ loop_event = "tool_turn"
    /\ loop_result.kind = "early"
    /\ Len(tool_results) = 2
    /\ model_calls = 1

(***************************************************************************)
(* C3: in run_agent_loop_interactive no model call is issued once the      *)
(* counter has advanced by MAX_TOOL_CALLS or more since the start or since *)
(* the last checkpoint decision.                                           *)
(***************************************************************************)
C3_CheckpointBeforeCall ==
    (loop_mode = "interactive" /\ loop_pc = "await_model") =>
        tool_calls - checkpoint_at < MAX_TOOL_CALLS

C11_FailureVisible ==
    LET failed_dispatch(block) ==
            \/ block.name \notin TOOL_FUNCTIONS
            \/ (block.name # RESTART_SELF /\ block.handler.kind = "raises")
    IN  /\ \A i \in 1..Len(tool_results) :
               failed_dispatch(tool_use_blocks[i]) => ~_tool_succeeded(tool_results[i])
        /\ (loop_event = "tool_turn" /\ loop_result.kind = "early") =>
               \A i \in 1..Len(tool_use_blocks) : ~failed_dispatch(tool_use_blocks[i])

(***************************************************************************)
(* C12: in either loop no tool-use block is dispatched twice and the       *)
(* blocks of a response are dispatched in the order the model emitted      *)
(* them; whenever a further model call is issued, every block of the       *)
(* preceding response has been dispatched and its result fed back, in the  *)
(* same order, one per block, under the block's id. A response is left     *)
(* partly dispatched only when the invocation ends inside the turn: a      *)
(* tool that ends the process, or a cancellation between two blocks.       *)
(***************************************************************************)
C12_DispatchInOrder ==
    LET ids == BlockIds(tool_use_blocks, Len(tool_use_blocks))
    IN  /\ Len(dispatched) <= Len(ids)
        /\ \A i \in 1..Len(dispatched) : dispatched[i] = ids[i]
        /\ \A i, j \in 1..Len(ids) : i # j => ids[i] # ids[j]
        /\ (loop_pc = "await_model" /\ model_calls > 1) =>
               /\ dispatched = ids
               /\ fed_ids = ids
               /\ Len(fed_back) = Len(ids)
        /\ (loop_pc = "done" /\ loop_result.kind # "cancelled") => dispatched = ids

C12_Witness ==
    /\ loop_pc = "await_model"
    /\ model_calls = 2
    /\ Len(tool_use_blocks) = 2
    /\ dispatched = <<<<1, 1>>, <<1, 2>>>>
    /\ fed_ids = dispatched
    /\ Len(fed_back) = 2

\* C12 as worded: every tool-use block of a response is dispatched
C12_EveryBlockDispatched ==
    loop_pc \in {"done", "exited", "raised"} =>
        Len(dispatched) = Len(tool_use_blocks)

(***************************************************************************)
(* C13: the interactive loop reads the cancellation flag at the top of     *)
(* each iteration and before each block's on_tool_start, nowhere else. A   *)
(* poll that finds the flag set starts nothing more: the loop returns the  *)
(* 'Cancelled' summary, which lists every tool run so far. A flag set      *)
(* between two polls is seen at the next one, so after the owner set it at *)
(* most one more step is started: the tool whose on_tool_start was under   *)
(* way, or the model call that follows a checkpoint; and 'Cancelled' is    *)
(* returned only when the flag is set.                                     *)
(***************************************************************************)
C13_CancelAtNextPoll ==
    /\ [](/\ cancelled => /\ cancel_mark # None
                          /\ model_calls + tools_run
                                 <= cancel_mark[1].calls + cancel_mark[1].tools + 1
          /\ loop_result.kind = "cancelled" =>
                 /\ cancelled
                 /\ loop_pc = "done"
                 /\ tool_log_len = tools_run)
    /\ [][(cancelled /\ loop_pc \in {"loop_head", "tools"}) =>
              /\ loop_pc' = "done"
              /\ loop_result'.kind = "cancelled"
              /\ model_calls' = model_calls
              /\ tools_run' = tools_run]_vars

C13_Witness ==
    /\ loop_pc = "done"
    /\ loop_result.kind = "cancelled"
    /\ cancel_mark # None
    /\ tools_run = cancel_mark[1].tools + 1
    /\ tool_log_len = tools_run
    /\ Len(tool_results) < Len(tool_use_blocks)

\* C13 as worded: once the flag is set no model call and no tool is started
C13_NothingAfterFlag ==
    (cancelled /\ cancel_mark # None) =>
        /\ model_calls = cancel_mark[1].calls
        /\ tools_run = cancel_mark[1].tools

(***************************************************************************)
(* C14: at a checkpoint a stop or cancel reply and the timeout of the wait *)
(* make on_checkpoint return False, every other reply True; on False the   *)
(* loop returns 'Stopped at checkpoint' without a further model call, on   *)
(* True it issues the next model call; and after a resumption no model     *)
(* call is issued once MAX_TOOL_CALLS more tools have been counted: the    *)
(* next checkpoint comes first.                                            *)
(***************************************************************************)
C14_CheckpointDecision ==
    /\ [](/\ ~on_checkpoint(None)
          /\ \A msg \in OwnerMessages :
                 on_checkpoint(Some(listened(msg)))
                     <=> listened(msg) \notin CANCEL_KEYWORDS
          /\ (checkpoint_at > 0 /\ loop_pc = "await_model") =>
                 tool_calls - checkpoint_at < MAX_TOOL_CALLS)
    /\ [][loop_pc = "checkpoint_wait" =>
              \/ /\ loop_pc' = "done"
                 /\ loop_result'.kind = "stopped"
                 /\ model_calls' = model_calls
                 /\ tools_run' = tools_run
              \/ /\ loop_pc' = "await_model"
                 /\ model_calls' = model_calls + 1
                 /\ checkpoint_at' = tool_calls]_vars

(***************************************************************************)
(* C15: when client.messages.create raises, in either loop, the invocation *)
(* returns the fixed apology at once: nothing propagates to the caller,    *)
(* the call is not issued again, and no model call and no tool follows.    *)
(***************************************************************************)
C15_ProviderFailure ==
    /\ [](loop_event = "api_error" =>
              /\ loop_pc = "done"
              /\ loop_result = Returned("api_error"))
    /\ [](loop_result.kind = "api_error" => loop_event = "api_error")
    /\ [][loop_event # "api_error"]_vars

C15_Witness ==
    /\ loop_mode = "interactive"
    /\ loop_event = "api_error"
    /\ loop_result.kind = "api_error"
    /\ model_calls = 2
    /\ tools_run = 2

(***************************************************************************)
(* C16: in run_agent_loop the number of tools executed by one invocation   *)
(* never exceeds the selected budget, however many tool-use blocks a turn  *)
(* carries.                                                                *)
(***************************************************************************)
C16_BudgetBoundsTools ==
    loop_mode = "plain" => (tools_run <= max_tools /\ tool_calls <= max_tools)

(***************************************************************************)
(* C17: _tool_succeeded(text) is false exactly when the text contains, in  *)
(* any letter case, one of nine markers: "error:", "failed:",              *)
(* "exception:", "not found", "denied", "unauthorized", "timeout",         *)
(* "could not", "unable to"; "Created task: X [ID:1]" is a success and     *)
(* "Error: not found" a failure.                                           *)
(***************************************************************************)
C17_NineMarkers ==
    LET markers == {<<"e", "r", "r", "o", "r", ":">>, <<"f", "a", "i", "l", "e", "d", ":">>, <<"e", "x", "c", "e", "p", "t", "i", "o", "n", ":">>, <<"n", "o", "t", " ", "f", "o", "u", "n", "d">>, <<"d", "e", "n", "i", "e", "d">>,
                    <<"u", "n", "a", "u", "t", "h", "o", "r", "i", "z", "e", "d">>, <<"t", "i", "m", "e", "o", "u", "t">>, <<"c", "o", "u", "l", "d", " ", "n", "o", "t">>, <<"u", "n", "a", "b", "l", "e", " ", "t", "o">>}
        marked == \E marker \in markers : Contains(lower(sample), marker)
    IN  verdict.op = "tool_succeeded" =>
            /\ verdict.flag <=> ~marked
            /\ sample = <<"C", "r", "e", "a", "t", "e", "d", " ", "t", "a", "s", "k", ":", " ", "X", " ", "[", "I", "D", ":", "1", "]">> => verdict.flag
            /\ sample = <<"E", "r", "r", "o", "r", ":", " ", "n", "o", "t", " ", "f", "o", "u", "n", "d">> => ~verdict.flag

C17_Witness ==
    /\ verdict.op = "tool_succeeded"
    /\ sample = <<" ", "E", "X", "C", "E", "P", "T", "I", "O", "N", ":", " ", "B", "O", "O", "M">>
    /\ ~verdict.flag

\* C17 as worded: eight markers, every other text a success
C17_EightMarkers ==
    LET markers == {<<"e", "r", "r", "o", "r", ":">>, <<"f", "a", "i", "l", "e", "d", ":">>, <<"n", "o", "t", " ", "f", "o", "u", "n", "d">>, <<"d", "e", "n", "i", "e", "d">>,
                    <<"u", "n", "a", "u", "t", "h", "o", "r", "i", "z", "e", "d">>, <<"t", "i", "m", "e", "o", "u", "t">>, <<"c", "o", "u", "l", "d", " ", "n", "o", "t">>, <<"u", "n", "a", "b", "l", "e", " ", "t", "o">>}
        marked == \E marker \in markers : Contains(lower(sample), marker)
    IN  verdict.op = "tool_succeeded" => (verdict.flag <=> ~marked)

(***************************************************************************)
(* C18: _is_intent_text(text) is true exactly when the trimmed text is     *)
(* empty, or ends in a colon, or contains in its last 100 characters, in   *)
(* any letter case, one of "let me ", "i'll ", "i will ", "i'm going to ", *)
(* "let's "; "Let me check your tasks..." and "" are intent, "Done - I     *)
(* added the task." is not.                                                *)
(***************************************************************************)
C18_IntentText ==
    LET trimmed == strip(sample)
        first == IF Len(trimmed) > 100 THEN Len(trimmed) - 99 ELSE 1
        final == lower(SubSeq(trimmed, first, Len(trimmed)))
        phrases == {<<"l", "e", "t", " ", "m", "e", " ">>, <<"i", "'", "l", "l", " ">>, <<"i", " ", "w", "i", "l", "l", " ">>, <<"i", "'", "m", " ", "g", "o", "i", "n", "g", " ", "t", "o", " ">>, <<"l", "e", "t", "'", "s", " ">>}
        intent == \/ trimmed = <<>>
                  \/ trimmed[Len(trimmed)] = ":"
                  \/ \E phrase \in phrases : Contains(final, phrase)
    IN  verdict.op = "is_intent_text" =>
            /\ verdict.flag <=> intent
            /\ sample = <<"L", "e", "t", " ", "m", "e", " ", "c", "h", "e", "c", "k", " ", "y", "o", "u", "r", " ", "t", "a", "s", "k", "s", ".", ".", ".">> => verdict.flag
            /\ sample = <<>> => verdict.flag
            /\ sample = <<"D", "o", "n", "e", " ", "-", " ", "I", " ", "a", "d", "d", "e", "d", " ", "t", "h", "e", " ", "t", "a", "s", "k", ".">> => ~verdict.flag

C18_Witness ==
    /\ verdict.op = "is_intent_text"
    /\ sample = <<"L", "e", "t", " ", "m", "e", " ">> \o Pad(TAIL_CHARS - 6)
    /\ ~verdict.flag

(***************************************************************************)
(* C19: run_agent_loop gives a nudge the high-quality model and budget 20  *)
(* whatever its text, gives a message that matches a simple-execution      *)
(* pattern (such as "mark task 42 done") the fast model and budget 5, and  *)
(* gives every other message the high-quality model and budget 20; the     *)
(* fast model is chosen if and only if the budget is 5.                    *)
(***************************************************************************)
C19_ModelSelection ==
    verdict.op = "select" =>
        /\ sample_nudge =>
               verdict.model = MODEL_OPUS /\ verdict.budget = MAX_TOOL_CALLS
        /\ (~sample_nudge /\ verdict.flag) =>
               verdict.model = MODEL_SONNET /\ verdict.budget = MAX_TOOL_CALLS_SIMPLE
        /\ (~sample_nudge /\ ~verdict.flag) =>
               verdict.model = MODEL_OPUS /\ verdict.budget = MAX_TOOL_CALLS
        /\ verdict.model = MODEL_SONNET <=> verdict.budget = MAX_TOOL_CALLS_SIMPLE
        /\ sample \in {<<"m", "a", "r", "k", " ", "t", "a", "s", "k", " ", "4", "2", " ", "d", "o", "n", "e">>, <<"a", "d", "d", " ", "a", " ", "t", "a", "s", "k", " ", "b", "u", "y", " ", "m", "i", "l", "k">>, <<"y", "e", "s">>,
                       <<"q", "u", "e", "r", "y", " ", "#", "w", "o", "r", "k">>} => verdict.flag
        /\ sample \in {<<"W", "h", "a", "t", " ", "s", "h", "o", "u", "l", "d", " ", "I", " ", "d", "o", " ", "t", "o", "d", "a", "y", "?">>, <<"o", "k", "a", "y">>, <<"q", "u", "e", "r", "y">>} => ~verdict.flag

C19_Witness ==
    /\ verdict.op = "select"
    /\ sample = <<"m", "a", "r", "k", " ", "t", "a", "s", "k", " ", "4", "2", " ", "d", "o", "n", "e">>
    /\ ~sample_nudge
    /\ verdict.model = MODEL_SONNET
    /\ verdict.budget = MAX_TOOL_CALLS_SIMPLE

(***************************************************************************)
(* C20: the window _get_recent_context returns is made of the last         *)
(* RECENT_CONTEXT_LIMIT complete exchanges of the journal (all of them     *)
(* when there are fewer): each user message in it is followed by the       *)
(* assistant message that is the next message after it in the journal, and *)
(* no later complete exchange is missing.  A message's content is the      *)
(* number of its journal line.                                             *)
(***************************************************************************)
C20_LastCompleteExchanges ==
    Len(context) = 1 =>
        LET messages == context[1]
            IsRole(i, type) == IsMessageLine(journal[i]) /\ journal[i].type = type
            Answers(i, j) ==
                /\ i < j
                /\ IsRole(i, "user_message")
                /\ IsRole(j, "assistant_message")
                /\ \A k \in (i + 1)..(j - 1) : ~IsMessageLine(journal[k])
            asked == {i \in 1..Len(journal) : \E j \in 1..Len(journal) : Answers(i, j)}
            recent == {i \in asked :
                          Cardinality({s \in asked : s > i}) < RECENT_CONTEXT_LIMIT}
        IN  /\ Len(messages) = 2 * Cardinality(recent)
            /\ \A k \in 1..Len(messages) :
                   IF k % 2 = 1
                   THEN messages[k].content \in recent
                   ELSE Answers(messages[k - 1].content, messages[k].content)
            /\ \A k \in 1..Len(messages) :
                   k + 2 <= Len(messages) =>
                       messages[k].content < messages[k + 2].content

\* ---------------------------------------------------------------------
\* Journals longer than the scanned tail: a session that dispatches many
\* tools writes two lines per dispatch (loop.py:304-315)
\* ---------------------------------------------------------------------

\* bounds of the long journals
MaxMessages == 4
MaxRuns == 2

\* the tools dispatched in a row by one session: one, or enough to fill the
\* scanned tail
RunLengths == {1, SCAN_LINES \div 2}

tool_call_line == [form |-> "object", type |-> "tool_call", content |-> 0]
tool_result_line == [form |-> "object", type |-> "tool_result", content |-> 0]

DispatchLines(n) ==
    [i \in 1..(2 * n) |-> IF i % 2 = 1 THEN tool_call_line ELSE tool_result_line]

IsToolRecord(line) ==
    line.form = "object" /\ line.type \in {"tool_call", "tool_result"}

WithoutToolRecords(lines) == SelectSeq(lines, LAMBDA line : ~IsToolRecord(line))

MessageLines(lines) == Cardinality({i \in 1..Len(lines) : IsMessageLine(lines[i])})

\* the starts of the runs of tool records
Runs(lines) ==
    Cardinality({i \in 1..Len(lines) :
                    /\ IsToolRecord(lines[i])
                    /\ lines[i].type = "tool_call"
                    /\ (i = 1 \/ ~IsToolRecord(lines[i - 1]))})

\* _log_to_journal("user_message" / "assistant_message", {"content": ...})
LogMessage(type) ==
    /\ context = None
    /\ MessageLines(journal) < MaxMessages
    /\ journal' = Append(journal, [form |-> "object", type |-> type,
                                   content |-> Len(journal) + 1])
    /\ journal_exists' = TRUE
    /\ UNCHANGED <<restVars, textVars, context, preVars, botVars, sessVars, loopVars>>

\* n dispatches in a row, each logging its tool_call and its tool_result
LogDispatches(n) ==
    /\ context = None
    /\ Runs(journal) < MaxRuns
    /\ IF journal = <<>> THEN TRUE ELSE ~IsToolRecord(journal[Len(journal)])
    /\ journal' = journal \o DispatchLines(n)
    /\ journal_exists' = TRUE
    /\ UNCHANGED <<restVars, textVars, context, preVars, botVars, sessVars, loopVars>>

NextScan ==
    \/ \E type \in {"user_message", "assistant_message"} : LogMessage(type)
    \/ \E n \in RunLengths : LogDispatches(n)
    \/ ReadContext

SpecScan == InitCtx /\ [][NextScan]_vars

\* C21 (amended): on a journal of at most 200 lines the context window
\* equals the window of the same journal with every tool_call and
\* tool_result record removed
C21_ToolRecordsInvisible ==
    (Len(context) = 1 /\ Len(journal) <= SCAN_LINES) =>
        context[1] = _get_recent_context(journal_exists, WithoutToolRecords(journal))

\* tool records lie between and after the messages of a window that is read
C21_Witness ==
    /\ Len(context) = 1
    /\ Len(journal) <= SCAN_LINES
    /\ Len(context[1]) = 4
    /\ Runs(journal) = MaxRuns
    /\ IsToolRecord(journal[Len(journal)])

\* C21 as stated: the same equality for every journal, however many tool
\* records it holds
C21_HoweverManyToolRecords ==
    Len(context) = 1 =>
        context[1] = _get_recent_context(journal_exists, WithoutToolRecords(journal))

\* ---------------------------------------------------------------------
\* Malformed journal lines
\* ---------------------------------------------------------------------

\* a line json.loads rejects, or one it parses into something that is no dict
IsMalformed(line) == line.form \in {"not_json", "not_object"}

WithoutMalformed(lines) == SelectSeq(lines, LAMBDA line : ~IsMalformed(line))

\* C22: on a journal of at most 200 lines the context window equals the
\* window of the same journal with the malformed lines removed, be they
\* non-JSON text or JSON that is no record object
C22_MalformedSkipped ==
    (Len(context) = 1 /\ Len(journal) <= SCAN_LINES) =>
        context[1] = _get_recent_context(journal_exists, WithoutMalformed(journal))

(***************************************************************************)
(* agent/loop.py: what the loops write to the journal and hand to the      *)
(* model.  Several invocations run as tasks of one event loop and share    *)
(* the journal; a task gives way to the others only at an await.           *)
(***************************************************************************)

\* bound: the model calls answered, over all invocations
MaxModelCalls == 2

RESULT_LOG_CHARS == 500

\* result[:500] + ("..." if len(result) > 500 else "")
result_log(result) ==
    IF Len(result) > RESULT_LOG_CHARS
    THEN SubSeq(result, 1, RESULT_LOG_CHARS) \o <<".", ".", ".">>
    ELSE result

\* the id of no tool-use block
NoBlock == <<<<0, 0>>, 0>>

\* _log_to_journal(event_type, data) appends one line.  As in the journals
\* above, content is 0 for an empty or missing "content" and the number of
\* the line otherwise; text is what the record carries (the content, the
\* tool name, the logged result).  by and id are not in the file: they name
\* the invocation that wrote the line and the tool-use block it is about.
_log_to_journal(lines, event_type, text, p, id) ==
    Append(lines,
           [form |-> "object", type |-> event_type,
            content |-> IF event_type \in {"user_message", "assistant_message"}
                           /\ text # <<>>
                        THEN Len(lines) + 1 ELSE 0,
            text |-> text, by |-> p, id |-> id])

\* a variant that returns the text without logging it
_extract_final_text_unlogged(lines, p, blocks) ==
    [journal |-> lines, text |-> join(blocks)]

\* final_text = "\n".join(...); _log_to_journal("assistant_message", ...);
\* return final_text
_extract_final_text(lines, p, blocks) ==
    LET final_text == join(blocks)
    IN  [journal |-> _log_to_journal(lines, "assistant_message", final_text, p, NoBlock),
         text |-> final_text]

\* a variant that does not log the result
_execute_tool_block_result_unlogged(lines, p, tool_block) ==
    LET called == _log_to_journal(lines, "tool_call", tool_block.name, p, tool_block.id)
        out == execute_tool(tool_block.name, tool_block.arguments, tool_block.handler)
    IN  [kind |-> out.kind, journal |-> called,
         result |-> tool_result(tool_block, out.text)]

\* _execute_tool_block with its journal lines (the interactive loop has the
\* same three statements inline): tool_call, execute_tool, tool_result.
\* SystemExit leaves execute_tool before the result is logged.
_execute_tool_block_logged(lines, p, tool_block) ==
    LET called == _log_to_journal(lines, "tool_call", tool_block.name, p, tool_block.id)
        out == execute_tool(tool_block.name, tool_block.arguments, tool_block.handler)
    IN  IF out.kind = "returned"
        THEN [kind |-> "returned",
              journal |-> _log_to_journal(called, "tool_result", result_log(out.text),
                                          p, tool_block.id),
              result |-> tool_result(tool_block, out.text)]
        ELSE [kind |-> out.kind, journal |-> called,
              result |-> tool_result(tool_block, <<>>)]

\* [_execute_tool_block(block) for block in tool_use_blocks]
RECURSIVE ExecuteBlocksLogged(_, _, _, _, _)
ExecuteBlocksLogged(lines, p, blocks, results, started) ==
    IF blocks = <<>>
    THEN [kind |-> "returned", journal |-> lines, results |-> results,
          dispatched |-> started]
    ELSE LET run == _execute_tool_block_logged(lines, p, Head(blocks))
         IN  IF run.kind = "returned"
             THEN ExecuteBlocksLogged(run.journal, p, Tail(blocks),
                                      Append(results, run.result),
                                      Append(started, Head(blocks).id))
             ELSE [kind |-> run.kind, journal |-> run.journal, results |-> results,
                   dispatched |-> Append(started, Head(blocks).id)]

\* a message of the list given to the model: its role, its content, the ids
\* of the tool-use blocks in it and the tool_use_id of the results in it
Message(role, content, tool_use, tool_result_ids) ==
    [role |-> role, content |-> content, tool_use |-> tool_use,
     tool_result |-> tool_result_ids]

\* messages = _get_recent_context()
ContextMessages(recent) ==
    [i \in 1..Len(recent) |-> Message(recent[i].role, recent[i].content, <<>>, <<>>)]

\* a variant that appends the tool results without the assistant message
feed_back_results_only(messages, texts, blocks, results) ==
    Append(messages,
           Message("user", <<>>, <<>>, [i \in 1..Len(results) |-> results[i].tool_use_id]))

\* messages.append({"role": "assistant", "content": response.content})
\* messages.append({"role": "user", "content": tool_results})
feed_back(messages, texts, blocks, results) ==
    messages \o
    <<Message("assistant", texts, [i \in 1..Len(blocks) |-> blocks[i].id], <<>>),
      Message("user", <<>>, <<>>, [i \in 1..Len(results) |-> results[i].tool_use_id])>>

\* the head of the while loop, up to the await of the model call or the
\* return.  The interactive loop polls check_cancelled and, without an
\* on_checkpoint callback, stops at the checkpoint.
LoopHead(loop, cancel) ==
    IF loop.mode = "plain"
    THEN IF loop_continues(loop.tool_calls, loop.max_tools)
         THEN [loop EXCEPT !.pc = "await_model"]
         ELSE [loop EXCEPT !.pc = "done", !.result = Returned("too_many")]
    ELSE IF check_cancelled(cancel)
         THEN [loop EXCEPT !.pc = "done", !.result = Returned("cancelled")]
    ELSE IF checkpoint_due(loop.tool_calls)
         THEN [loop EXCEPT !.pc = "done", !.result = Returned("too_many")]
    ELSE [loop EXCEPT !.pc = "await_model"]

\* after the tools of a turn: the counter, the early return or the results
\* fed back, and the head of the next iteration
TurnEnd(loop, lines, p, cancel) ==
    LET counted == [loop EXCEPT !.tool_calls = @ + Len(loop.tool_results)]
        contents == [i \in 1..Len(loop.tool_results) |-> loop.tool_results[i].content]
    IN  IF early_return(loop.text_blocks, contents)
        THEN LET final == _extract_final_text(lines, p, loop.text_blocks)
             IN  [loop |-> [counted EXCEPT !.pc = "done",
                                           !.result = [kind |-> "early",
                                                       text |-> final.text]],
                  journal |-> final.journal]
        ELSE [loop |-> LoopHead([counted EXCEPT
                                    !.messages = feed_back(@, loop.text_blocks,
                                                           loop.tool_use_blocks,
                                                           loop.tool_results)],
                                cancel),
              journal |-> lines]

\* sys.exit in a tool ends the process and with it every running invocation
ProcessExits(all, p, loop) ==
    [q \in LoopIds |->
        IF q = p THEN [loop EXCEPT !.pc = "exited"]
        ELSE IF all[q].pc \in {"idle", "done"} THEN all[q]
        ELSE [all[q] EXCEPT !.pc = "exited"]]

ModelCalls == loops[1].model_calls + loops[2].model_calls

journalVars == <<preVars, botVars, sessVars, loopVars, textVars, reviewVars, perchVars,
                 streamVars, context>>

\* f"(wrench) {tool_name} ...": "#" stands for the wrench sign
PendingEntry(tool_name) == <<"#", " ">> \o tool_name \o <<" ", ".", ".", ".">>

\* f"(wrench) {tool_name} {symbol}": "v" and "x" stand for the check mark and
\* the cross
FinishedEntry(tool_name, success) ==
    <<"#", " ">> \o tool_name \o <<" ", IF success THEN "v" ELSE "x">>

IsPending(entry) == endswith(entry, <<" ", ".", ".", ".">>)

\* InteractiveSession.on_tool_start, up to its await of _update_status
on_tool_start(session, tool_name) ==
    [tool_log |-> Append(session.tool_log, PendingEntry(tool_name)),
     calls |-> Append(session.calls, [kind |-> "start", name |-> tool_name,
                                      success |-> FALSE])]

\* a variant that marks the first entry of the tool instead of the last one
on_tool_end_first_entry(session, tool_name, success) ==
    LET found == {i \in 1..Len(session.tool_log) :
                     Contains(session.tool_log[i], tool_name)}
        first == CHOOSE i \in found : \A j \in found : i <= j
    IN  [tool_log |-> IF found = {} THEN session.tool_log
                      ELSE [session.tool_log EXCEPT
                               ![first] = FinishedEntry(tool_name, success)],
         calls |-> Append(session.calls, [kind |-> "end", name |-> tool_name,
                                          success |-> success])]

\* InteractiveSession.on_tool_end, up to its await of _update_status: the
\* last entry that contains the tool's name gets the symbol
on_tool_end(session, tool_name, success) ==
    LET found == {i \in 1..Len(session.tool_log) :
                     Contains(session.tool_log[i], tool_name)}
        last == CHOOSE i \in found : \A j \in found : j <= i
    IN  [tool_log |-> IF found = {} THEN session.tool_log
                      ELSE [session.tool_log EXCEPT
                               ![last] = FinishedEntry(tool_name, success)],
         calls |-> Append(session.calls, [kind |-> "end", name |-> tool_name,
                                          success |-> success])]

\* "status = ToolStatus(...); await callbacks.on_tool_start(tool_name)" for
\* the next block of the turn
ReportStart(loop) ==
    [loop EXCEPT !.pc = "tool_start",
                 !.session = on_tool_start(@,
                     loop.tool_use_blocks[Len(loop.tool_results) + 1].name)]

\* run_agent_loop / run_agent_loop_interactive up to the first model call
JournalStart(p, mode, has_key, user_message, cancel) ==
    /\ loops[p].pc = "idle"
    \* the invocations are numbered in the order they start
    /\ \A q \in LoopIds : q < p => loops[q].pc # "idle"
    /\ \A q \in LoopIds : loops[q].pc # "exited"
    /\ IF ~has_key
       THEN /\ loops' = [loops EXCEPT ![p] =
                            [@ EXCEPT !.pc = "done", !.mode = mode,
                                      !.result = Returned("not_configured")]]
            /\ UNCHANGED <<journal, journal_exists>>
       ELSE LET started ==
                    [IdleLoop EXCEPT
                        !.mode = mode,
                        !.max_tools = IF mode = "plain"
                                      THEN selection(user_message, FALSE).max_tools
                                      ELSE MAX_TOOL_CALLS,
                        !.messages =
                            Append(ContextMessages(
                                       _get_recent_context(journal_exists, journal)),
                                   Message("user", user_message, <<>>, <<>>))]
            IN  /\ loops' = [loops EXCEPT ![p] = LoopHead(started, cancel)]
                /\ journal' = _log_to_journal(journal, "user_message", user_message,
                                              p, NoBlock)
                /\ journal_exists' = TRUE
    /\ UNCHANGED journalVars

\* client.messages.create raised
JournalModelFails(p) ==
    /\ loops[p].pc = "await_model"
    /\ loops' = [loops EXCEPT ![p] = [@ EXCEPT !.pc = on_api_error.pc,
                                               !.result = on_api_error.result]]
    /\ UNCHANGED <<journal, journal_exists>>
    /\ UNCHANGED journalVars

\* the response arrives: the final answer, or the tools.  run_agent_loop
\* runs the whole turn without an await; the interactive loop awaits
\* on_tool_start before each tool.
JournalModelResponds(p, response, cancel) ==
    /\ loops[p].pc = "await_model"
    /\ ModelCalls < MaxModelCalls
    /\ LET calls == loops[p].model_calls + 1
           blocks == WithIds(response.tool_use_blocks, <<p, calls>>)
           loop == [loops[p] EXCEPT !.model_calls = calls,
                                    !.text_blocks = response.text_blocks,
                                    !.tool_use_blocks = blocks,
                                    !.tool_results = <<>>]
       IN  IF blocks = <<>>
           THEN LET final == _extract_final_text(journal, p, response.text_blocks)
                IN  /\ loops' = [loops EXCEPT ![p] =
                                    [loop EXCEPT !.pc = "done",
                                                 !.result = [kind |-> "final",
                                                             text |-> final.text]]]
                    /\ journal' = final.journal
           ELSE IF loop.mode = "plain"
           THEN LET run == ExecuteBlocksLogged(journal, p, blocks, <<>>, loop.dispatched)
                    ran == [loop EXCEPT !.tool_results = run.results,
                                        !.dispatched = run.dispatched]
                IN  IF run.kind # "returned"
                    THEN /\ loops' = ProcessExits(loops, p, ran)
                         /\ journal' = run.journal
                    ELSE LET turn == TurnEnd(ran, run.journal, p, cancel)
                         IN  /\ loops' = [loops EXCEPT ![p] = turn.loop]
                             /\ journal' = turn.journal
           ELSE /\ loops' = [loops EXCEPT ![p] =
                                IF check_cancelled(cancel)
                                THEN [loop EXCEPT !.pc = "done",
                                                  !.result = Returned("cancelled")]
                                ELSE ReportStart(loop)]
                /\ journal' = journal
    /\ journal_exists' = TRUE
    /\ UNCHANGED journalVars

\* the interactive loop executes the next block of the turn and awaits
\* on_tool_end
JournalTool(p) ==
    /\ loops[p].pc = "tool_start"
    /\ LET loop == loops[p]
           block == loop.tool_use_blocks[Len(loop.tool_results) + 1]
           run == _execute_tool_block_logged(journal, p, block)
           ran == [loop EXCEPT !.dispatched = Append(@, block.id)]
       IN  /\ journal' = run.journal
           /\ loops' = IF run.kind # "returned"
                       THEN ProcessExits(loops, p, ran)
                       ELSE [loops EXCEPT ![p] =
                                [ran EXCEPT !.pc = "tool_end",
                                            !.tool_results = Append(@, run.result),
                                            !.session =
                                                on_tool_end(@, block.name,
                                                    _tool_succeeded(run.result.content))]]
    /\ UNCHANGED journal_exists
    /\ UNCHANGED journalVars

\* on_tool_end returned: the next block after a poll of check_cancelled,
\* or the end of the turn
JournalToolEnd(p, cancel) ==
    /\ loops[p].pc = "tool_end"
    /\ LET loop == loops[p]
       IN  IF Len(loop.tool_results) < Len(loop.tool_use_blocks)
           THEN /\ loops' = [loops EXCEPT ![p] =
                                IF check_cancelled(cancel)
                                THEN [loop EXCEPT !.pc = "done",
                                                  !.result = Returned("cancelled")]
                                ELSE ReportStart(loop)]
                /\ journal' = journal
           ELSE LET turn == TurnEnd(loop, journal, p, cancel)
                IN  /\ loops' = [loops EXCEPT ![p] = turn.loop]
                    /\ journal' = turn.journal
    /\ UNCHANGED journal_exists
    /\ UNCHANGED journalVars

\* the responses given to the invocations
FailingCall ==
    [name |-> CREATE_TODOIST_TASK, arguments |-> NoArguments,
     handler |-> Returns(<<"E", "r", "r", "o", "r", ":", " ", "n", "o", "t", " ", "f", "o", "u", "n", "d">>)]

RestartCall ==
    [name |-> RESTART_SELF, arguments |-> [confirm |-> RESTART_CONFIRM],
     handler |-> Returns(<<>>)]

IntentText == <<<<"L", "e", "t", " ", "m", "e", " ", "c", "h", "e", "c", "k", " ", "y", "o", "u", "r", " ", "t", "a", "s", "k", "s", ".", ".", ".">>>>

JournalBlocks == {<<>>, <<PlainCall>>, <<PlainCall, FailingCall>>, <<RestartCall>>}

JournalResponses ==
    {[text_blocks |-> texts, tool_use_blocks |-> blocks] :
        texts \in BudgetTextBlocks, blocks \in JournalBlocks}
    \cup {[text_blocks |-> IntentText, tool_use_blocks |-> <<PlainCall>>]}

\* the message every invocation is started with
JournalMessage == <<"m", "a", "r", "k", " ", "t", "a", "s", "k", " ", "4", "2", " ", "d", "o", "n", "e">>

InitJournal ==
    /\ InitPreempt
    /\ InitBotVars
    /\ InitSessFixed
    /\ InitCtxFixed
    /\ InitLoopFixed
    /\ InitTextFixed
    /\ InitRestFixed

NextJournal ==
    \/ \E p \in LoopIds, mode \in {"plain", "interactive"}, has_key \in BOOLEAN,
          cancel \in BOOLEAN :
          JournalStart(p, mode, has_key, JournalMessage, cancel)
    \/ \E p \in LoopIds : JournalModelFails(p)
    \/ \E p \in LoopIds, response \in JournalResponses, cancel \in BOOLEAN :
          JournalModelResponds(p, response, cancel)
    \/ \E p \in LoopIds : JournalTool(p)
    \/ \E p \in LoopIds, cancel \in BOOLEAN : JournalToolEnd(p, cancel)

SpecJournal == InitJournal /\ [][NextJournal]_vars

\* the lines an invocation wrote
LinesBy(p) == {i \in 1..Len(journal) : journal[i].by = p}

\* C23: when an invocation has returned a final answer (a response without
\* tool-use blocks, or an early return) the journal holds exactly one
\* assistant_message record of that invocation, it carries exactly the
\* returned text, and it comes after the invocation's user_message record
\* and after all of its tool records
C23_AnswerRecorded ==
    \A p \in LoopIds :
        (loops[p].pc = "done" /\ loops[p].result.kind \in {"final", "early"}) =>
            LET answers == {i \in LinesBy(p) : journal[i].type = "assistant_message"}
            IN  /\ Cardinality(answers) = 1
                /\ \E k \in LinesBy(p) : journal[k].type = "user_message"
                /\ \A i \in answers :
                      /\ journal[i].text = loops[p].result.text
                      /\ \A k \in LinesBy(p) \ answers : k < i

\* an early return after a tool, with a line of the other invocation
\* between the user_message record and the answer
C23_Witness ==
    \E p \in LoopIds :
        /\ loops[p].pc = "done"
        /\ loops[p].result.kind = "early"
        /\ loops[p].result.text # <<>>
        /\ Len(loops[p].dispatched) = 1
        /\ \E i, j, k \in 1..Len(journal) :
              /\ i < j /\ j < k
              /\ journal[i].by = p /\ journal[i].type = "user_message"
              /\ journal[j].by # p
              /\ journal[k].by = p /\ journal[k].type = "assistant_message"

\* the tool_call records of an invocation, in journal order
RECURSIVE CallsBy(_, _)
CallsBy(lines, p) ==
    IF lines = <<>> THEN <<>>
    ELSE LET line == lines[Len(lines)]
             before == CallsBy(SubSeq(lines, 1, Len(lines) - 1), p)
         IN  IF line.by = p /\ line.type = "tool_call"
             THEN Append(before, line.id) ELSE before

\* the tool_result record of the same block follows line i at once
ResultFollows(i) ==
    /\ i < Len(journal)
    /\ journal[i + 1].type = "tool_result"
    /\ journal[i + 1].by = journal[i].by
    /\ journal[i + 1].id = journal[i].id

\* the tool of line i is restart_self: with the confirmation it ends the
\* process inside execute_tool
EndsProcess(i) ==
    /\ journal[i].text = RESTART_SELF
    /\ i = Len(journal)
    /\ loops[journal[i].by].pc = "exited"

\* C24 (amended): the journal only grows; the tool_call records of an
\* invocation are its dispatches, one each and in dispatch order; every
\* tool_call record is immediately followed by the tool_result record of
\* the same dispatch, whatever the other invocations do, unless the tool
\* ended the process (restart_self), in which case the tool_call record is
\* the last line and has no tool_result; and every tool_result record
\* follows its tool_call
C24_DispatchRecords ==
    /\ [][/\ Len(journal') >= Len(journal)
          /\ SubSeq(journal', 1, Len(journal)) = journal]_vars
    /\ [](/\ \A p \in LoopIds : CallsBy(journal, p) = loops[p].dispatched
          /\ \A i \in 1..Len(journal) :
                /\ journal[i].type = "tool_call" => (ResultFollows(i) \/ EndsProcess(i))
                /\ journal[i].type = "tool_result" =>
                      /\ i > 1
                      /\ journal[i - 1].type = "tool_call"
                      /\ journal[i - 1].id = journal[i].id)

\* both invocations have dispatched tools, the second between two
\* dispatches of the first
C24_Witness ==
    \E i, j, k \in 1..Len(journal) :
        /\ i < j /\ j < k
        /\ journal[i].type = "tool_call" /\ journal[i].by = 1
        /\ journal[j].type = "tool_call" /\ journal[j].by = 2 /\ ResultFollows(j)
        /\ journal[k].type = "tool_call" /\ journal[k].by = 1 /\ ResultFollows(k)
        /\ loops[1].dispatched = <<journal[i].id, journal[k].id>>

\* C24 as stated: every tool_call record is immediately followed by its
\* tool_result record
C24_EveryCallHasResult ==
    \A i \in 1..Len(journal) : journal[i].type = "tool_call" => ResultFollows(i)

\* a message list starts with a user message, alternates strictly, ends
\* with a user message, and every assistant message with tool-use blocks
\* is followed by the user message with the results of exactly those blocks
WellFormed(messages) ==
    /\ messages # <<>>
    /\ messages[1].role = "user"
    /\ messages[Len(messages)].role = "user"
    /\ \A i \in 1..(Len(messages) - 1) :
          /\ messages[i].role # messages[i + 1].role
          /\ (messages[i].role = "assistant" /\ messages[i].tool_use # <<>>) =>
                messages[i + 1].tool_result = messages[i].tool_use

\* C28: the message list of every model call is well-formed
C28_MessagesWellFormed ==
    \A p \in LoopIds : loops[p].pc = "await_model" => WellFormed(loops[p].messages)

\* a list of five: an earlier exchange from the journal, the new message,
\* the assistant turn with two tool-use blocks and their two results
C28_Witness ==
    \E p \in LoopIds :
        /\ loops[p].pc = "await_model"
        /\ Len(loops[p].messages) = 5
        /\ Len(loops[p].messages[4].tool_use) = 2
        /\ loops[p].messages[5].tool_result = loops[p].messages[4].tool_use

(***************************************************************************)
(* integrations/tools/weekly_conductor.py: the weekly review session.      *)
(* The state file is None when it does not exist and otherwise             *)
(* Some([readable, session]): readable is FALSE for a file json.load       *)
(* rejects.  A session is [started_at, current_step, completed_steps];     *)
(* started_at is [form, at]: form "iso" with the hour at, "garbage" for a  *)
(* text fromisoformat rejects, "missing" for no or an empty value.         *)
(***************************************************************************)
REVIEW_STEPS ==
    <<"calendar_review", "deadline_scan", "waiting_for_review", "project_review",
      "category_health", "someday_maybe_review">>

SESSION_TIMEOUT_HOURS == 24

\* bound: the hours the clock runs
MaxHours == 26

_load_session(file) ==
    IF file = None THEN None
    ELSE IF ~file[1].readable THEN None
    ELSE Some(file[1].session)

_save_session(session) == Some([readable |-> TRUE, session |-> session])

\* a variant that leaves the file in place
_clear_session_keeps_file(file) == file

\* "if STATE_PATH.exists(): STATE_PATH.unlink()"
_clear_session(file) == None

\* a variant that takes a session of exactly 24 hours for stale
_is_session_stale_at_timeout(session, clock) ==
    IF session.started_at.form # "iso" THEN TRUE
    ELSE clock - session.started_at.at >= SESSION_TIMEOUT_HOURS

_is_session_stale(session, clock) ==
    IF session.started_at.form # "iso" THEN TRUE
    ELSE clock - session.started_at.at > SESSION_TIMEOUT_HOURS

\* the index from 0, or -1
_get_step_index(step_id) ==
    IF \E i \in 1..Len(REVIEW_STEPS) : REVIEW_STEPS[i] = step_id
    THEN (CHOOSE i \in 1..Len(REVIEW_STEPS) : REVIEW_STEPS[i] = step_id) - 1
    ELSE -1

\* the step number _format_step_guidance(step_index) names
_format_step_guidance(step_index) == step_index + 1

ACTION_START == <<"s", "t", "a", "r", "t">>
ACTION_STATUS == <<"s", "t", "a", "t", "u", "s">>
ACTION_NEXT == <<"n", "e", "x", "t">>
ACTION_COMPLETE == <<"c", "o", "m", "p", "l", "e", "t", "e">>
ACTION_ABANDON == <<"a", "b", "a", "n", "d", "o", "n">>

Reply(action, kind, step, covered) ==
    [action |-> action, kind |-> kind, step |-> step, covered |-> covered]

\* a variant of the 'next' branch that does not mark the step complete
mark_and_advance_unmarked(session, next_index) ==
    [session EXCEPT !.current_step = REVIEW_STEPS[next_index + 1]]

\* session["completed_steps"].append(session["current_step"]);
\* session["current_step"] = REVIEW_STEPS[next_index][0]
mark_and_advance(session, next_index) ==
    [session EXCEPT !.completed_steps = Append(@, session.current_step),
                    !.current_step = REVIEW_STEPS[next_index + 1]]

\* weekly_review_conductor(action): the file it leaves and what it returns
weekly_review_conductor(given, file, clock) ==
    LET action == strip(lower(given))
        loaded == _load_session(file)
    IN  IF action = ACTION_START
        THEN LET stale == IF loaded = None THEN FALSE
                          ELSE _is_session_stale(loaded[1], clock)
                 cleared == IF stale THEN _clear_session(file) ELSE file
                 session == IF stale THEN None ELSE loaded
             IN  IF session # None
                 THEN [file |-> cleared,
                       reply |-> Reply(action, "in_progress",
                                       _format_step_guidance(
                                           _get_step_index(session[1].current_step)),
                                       <<>>)]
                 ELSE [file |-> _save_session(
                                    [started_at |-> [form |-> "iso", at |-> clock],
                                     current_step |-> REVIEW_STEPS[1],
                                     completed_steps |-> <<>>]),
                       reply |-> Reply(action, "started", _format_step_guidance(0), <<>>)]
        ELSE IF action = ACTION_STATUS
        THEN IF loaded = None
             THEN [file |-> file, reply |-> Reply(action, "no_session", 0, <<>>)]
             ELSE [file |-> file,
                   reply |-> Reply(action, "status",
                                   _format_step_guidance(
                                       _get_step_index(loaded[1].current_step)),
                                   loaded[1].completed_steps)]
        ELSE IF action = ACTION_NEXT
        THEN IF loaded = None
             THEN [file |-> file, reply |-> Reply(action, "no_session", 0, <<>>)]
             ELSE LET current_index == _get_step_index(loaded[1].current_step)
                  IN  IF current_index >= Len(REVIEW_STEPS) - 1
                      THEN [file |-> _clear_session(file),
                            reply |-> Reply(action, "complete", 0, REVIEW_STEPS)]
                      ELSE [file |-> _save_session(
                                         mark_and_advance(loaded[1], current_index + 1)),
                            reply |-> Reply(action, "advanced",
                                            _format_step_guidance(current_index + 1),
                                            <<>>)]
        ELSE IF action = ACTION_COMPLETE
        THEN IF loaded = None
             THEN [file |-> file, reply |-> Reply(action, "no_session", 0, <<>>)]
             ELSE [file |-> _clear_session(file),
                   reply |-> Reply(action,
                                   IF loaded[1].completed_steps # <<>>
                                   THEN "completed_early" ELSE "ended",
                                   0,
                                   SelectSeq(REVIEW_STEPS,
                                             LAMBDA sid :
                                                 \E i \in 1..Len(loaded[1].completed_steps) :
                                                     loaded[1].completed_steps[i] = sid))]
        ELSE IF action = ACTION_ABANDON
        THEN [file |-> _clear_session(file), reply |-> Reply(action, "cleared", 0, <<>>)]
        ELSE [file |-> file, reply |-> Reply(action, "unknown", 0, <<>>)]

\* the actions the agent gives
ReviewActions ==
    {ACTION_START, ACTION_STATUS, ACTION_NEXT, ACTION_COMPLETE, ACTION_ABANDON,
     <<" ", "N", "e", "x", "t">>, <<"S", "T", "A", "R", "T", " ">>, <<"r", "e", "s", "t", "a", "r", "t">>}

\* files found at the start: none, one that is no JSON, and sessions whose
\* started_at cannot be used
OddSession(form) ==
    [started_at |-> [form |-> form, at |-> 0],
     current_step |-> REVIEW_STEPS[2],
     completed_steps |-> <<REVIEW_STEPS[1]>>]

InitialFiles ==
    {None, Some([readable |-> FALSE, session |-> OddSession("garbage")])}
    \cup {_save_session(OddSession(form)) : form \in {"garbage", "missing"}}

reviewOther == <<preVars, botVars, sessVars, ctxVars, loopVars, textVars, writerVars,
                 perchVars, streamVars>>

ReviewCall(given) ==
    /\ LET out == weekly_review_conductor(given, review_file, review_clock)
       IN  /\ review_file' = out.file
           /\ review_reply' = out.reply
    /\ UNCHANGED review_clock
    /\ UNCHANGED reviewOther

ReviewHour ==
    /\ review_clock < MaxHours
    /\ review_clock' = review_clock + 1
    /\ UNCHANGED <<review_file, review_reply>>
    /\ UNCHANGED reviewOther

InitReview ==
    /\ InitPreempt
    /\ InitBotVars
    /\ InitSessFixed
    /\ InitCtxFixed
    /\ InitLoopFixed
    /\ InitTextFixed
    /\ loops = [p \in LoopIds |-> IdleLoop]
    /\ InitPerchFixed
    /\ InitStreamFixed
    /\ review_file \in InitialFiles
    /\ review_clock = 0
    /\ review_reply = NoReply

NextReview ==
    \/ \E given \in ReviewActions : ReviewCall(given)
    \/ ReviewHour

SpecReview == InitReview /\ [][NextReview]_vars

\* what _load_session finds
StoredSession == _load_session(review_file)

\* a step of the model that is a call of the conductor with this action
Called(action) ==
    /\ review_clock' = review_clock
    /\ review_reply'.action = action

\* C25: in every stored session completed_steps is exactly the prefix of
\* the step order before current_step; a 'next' on a session at one of the
\* first five steps appends the current step and moves to the step after
\* it, and a 'next' at the sixth step reports completion and removes the
\* session
C25_Progression ==
    /\ [](StoredSession # None =>
             LET session == StoredSession[1]
                 index == _get_step_index(session.current_step)
             IN  /\ index >= 0
                 /\ session.completed_steps = SubSeq(REVIEW_STEPS, 1, index))
    /\ [][(Called(ACTION_NEXT) /\ StoredSession # None) =>
             LET session == StoredSession[1]
                 index == _get_step_index(session.current_step)
             IN  IF index + 1 < Len(REVIEW_STEPS)
                 THEN /\ review_file' = Some([readable |-> TRUE, session |->
                             [session EXCEPT
                                 !.completed_steps = Append(@, session.current_step),
                                 !.current_step = REVIEW_STEPS[index + 2]]])
                      /\ review_reply'.kind = "advanced"
                      /\ review_reply'.step = index + 2
                 ELSE /\ review_file' = None
                      /\ review_reply'.kind = "complete"]_vars

\* a session begun by 'start' has reached the sixth step
C25_Witness ==
    /\ StoredSession # None
    /\ StoredSession[1].started_at.form = "iso"
    /\ StoredSession[1].current_step = REVIEW_STEPS[Len(REVIEW_STEPS)]
    /\ Len(StoredSession[1].completed_steps) = Len(REVIEW_STEPS) - 1
    /\ review_reply.kind = "advanced"

\* a session is stale when it is older than 24 hours or has no started_at
\* that can be parsed
Stale(session, clock) ==
    \/ session.started_at.form \in {"garbage", "missing"}
    \/ clock - session.started_at.at > 24

\* C26: 'start' with no stored session or with a stale one stores a fresh
\* session at step 1 without completed steps; with a session that is not
\* stale it leaves the file as it is and reports the current step
C26_Start ==
    [][Called(ACTION_START) =>
          IF StoredSession = None \/ Stale(StoredSession[1], review_clock)
          THEN /\ StoredSession' =
                      Some([started_at |-> [form |-> "iso", at |-> review_clock],
                            current_step |-> REVIEW_STEPS[1],
                            completed_steps |-> <<>>])
               /\ review_reply'.kind = "started"
               /\ review_reply'.step = 1
          ELSE /\ review_file' = review_file
               /\ review_reply'.kind = "in_progress"
               /\ review_reply'.step =
                      _get_step_index(StoredSession[1].current_step) + 1]_vars

\* 'start' on a session of exactly 24 hours with two steps completed
C26_Witness ==
    /\ review_reply.action = ACTION_START
    /\ review_reply.kind = "in_progress"
    /\ review_reply.step = 3
    /\ StoredSession # None
    /\ Len(StoredSession[1].completed_steps) = 2
    /\ review_clock - StoredSession[1].started_at.at = 24

\* C27: 'complete' and 'abandon' leave no stored session; 'status' and an
\* unknown action leave the file as it is; 'next', 'status' and 'complete'
\* without a session report that there is none and leave the file as it is
C27_Termination ==
    [][/\ (Called(ACTION_COMPLETE) \/ Called(ACTION_ABANDON)) => StoredSession' = None
       /\ (Called(ACTION_STATUS)
           \/ (review_clock' = review_clock /\ review_reply'.kind = "unknown")) =>
              review_file' = review_file
       /\ ((Called(ACTION_NEXT) \/ Called(ACTION_STATUS) \/ Called(ACTION_COMPLETE))
           /\ StoredSession = None) =>
              /\ review_reply'.kind = "no_session"
              /\ review_file' = review_file]_vars

\* a session with completed steps was ended by 'complete'
C27_Witness ==
    /\ review_reply.action = ACTION_COMPLETE
    /\ review_reply.kind = "completed_early"
    /\ Len(review_reply.covered) = 3
    /\ review_file = None

(***************************************************************************)
(* perch.py: perch_tick from its clock reading to its return, with the     *)
(* journal it reads, the state file it keeps and the archive it writes.    *)
(* A journal line carries its timestamp ts, in seconds.  Every reading of  *)
(* the clock is later than the readings before it.                         *)
(***************************************************************************)
GAP_MINUTES == 30

\* bounds: the ticks begun, the journal lines written and the clock
MaxTicks == 2
MaxLines == 2
MaxPerchNow == 3700

\* the time that passes between two events: half the gap
HalfGap == (GAP_MINUTES * 60) \div 2

\* the ts of the last line of the journal
_get_last_activity_ts(exists, lines) ==
    IF ~exists \/ lines = <<>> THEN None ELSE Some(lines[Len(lines)].ts)

\* the user and assistant messages later than since_ts
_get_journal_entries_since(exists, lines, since_ts) ==
    IF ~exists THEN <<>>
    ELSE
    SelectSeq(lines,
              LAMBDA entry :
                  /\ entry.type \in {"user_message", "assistant_message"}
                  /\ IF since_ts = None THEN TRUE ELSE entry.ts > since_ts[1])

\* state["last_tick_ts"] = now.isoformat(); _save_perch_state(state)
tick_noted(saved, t) == [saved EXCEPT !.last_tick_ts = Some(t)]

\* state["last_archive_ts"] = ...; state["last_tick_ts"] = ...; save
state_updated(saved, t) == [last_archive_ts |-> Some(t), last_tick_ts |-> Some(t)]

\* a variant of the yield that records the tick as an archive
yield_return_marks_archive(saved, t) == state_updated(saved, t)

\* "if should_yield(): ...; return": nothing is saved
yield_return(saved, t) == saved

\* a variant without the finally clause
finally_skipped(s) == s

\* "finally: finish_work()"
finally_finish_work(s) == finish_work(s)

perchOther == <<last_op, last_ret, last_desc, fg_pc, fg_polls, yield_seen, req_in_tick,
                handoff, perch_started, sessVars, loopVars, textVars, writerVars,
                reviewVars, streamVars, context>>

Ended(run, outcome) == [run EXCEPT !.outcome = outcome]

\* perch_tick up to its first await or its return
PerchTickBegin(has_key) ==
    /\ perch_pc = "idle"
    /\ perch_run.count < MaxTicks
    /\ now < MaxPerchNow
    /\ now' = now + 1
    /\ LET t == now
           last_activity == _get_last_activity_ts(journal_exists, journal)
           entries == _get_journal_entries_since(journal_exists, journal,
                                                 perch_state.last_archive_ts)
           run == [now |-> t, entries |-> <<>>, outcome |-> "none",
                   started |-> FALSE, count |-> perch_run.count + 1]
           selected == [run EXCEPT !.entries = entries, !.started = TRUE]
           working == start_work(bot_state, PERCH_TASK, t)
       IN  IF last_activity = None
              \/ t - last_activity[1] < GAP_MINUTES * 60
              \/ entries = <<>>
           THEN /\ perch_state' = tick_noted(perch_state, t)
                /\ perch_run' = Ended(run, IF last_activity = None THEN "no_activity"
                                           ELSE IF entries = <<>> THEN "no_entries"
                                           ELSE "gap")
                /\ UNCHANGED <<bot_state, perch_pc>>
           ELSE IF should_yield(working)
           THEN /\ perch_state' = yield_return(perch_state, t)
                /\ perch_run' = Ended(selected, "preempted_before")
                /\ bot_state' = finally_finish_work(working)
                /\ UNCHANGED perch_pc
           ELSE IF ~has_key
           THEN \* _summarize_and_evaluate returns None without an await
                /\ perch_state' = state_updated(perch_state, t)
                /\ perch_run' = Ended(selected, "trivial")
                /\ bot_state' = finally_finish_work(working)
                /\ UNCHANGED perch_pc
           ELSE /\ perch_run' = selected
                /\ bot_state' = working
                /\ perch_pc' = "summarizing"
                /\ UNCHANGED perch_state
    /\ UNCHANGED <<memory_archive, journal, journal_exists>>
    /\ UNCHANGED perchOther

\* _summarize_and_evaluate returned: the second yield check, the archive
\* write, and the await of the debug DM
PerchTickSummarized(summary, stored) ==
    /\ perch_pc = "summarizing"
    /\ IF should_yield(bot_state)
       THEN /\ perch_state' = yield_return(perch_state, perch_run.now)
            /\ perch_run' = Ended(perch_run, "preempted_after")
            /\ bot_state' = finally_finish_work(bot_state)
            /\ perch_pc' = "idle"
            /\ UNCHANGED memory_archive
       ELSE IF summary = "none"
       THEN /\ perch_state' = state_updated(perch_state, perch_run.now)
            /\ perch_run' = Ended(perch_run, "trivial")
            /\ bot_state' = finally_finish_work(bot_state)
            /\ perch_pc' = "idle"
            /\ UNCHANGED memory_archive
       ELSE IF stored = "raises"
       THEN /\ perch_run' = Ended(perch_run, "raised")
            /\ bot_state' = finally_finish_work(bot_state)
            /\ perch_pc' = "idle"
            /\ UNCHANGED <<memory_archive, perch_state>>
       ELSE /\ memory_archive' = IF stored = "stored"
                                 THEN Append(memory_archive, perch_run.entries) ELSE memory_archive
            /\ perch_pc' = "notifying"
            /\ UNCHANGED <<bot_state, perch_state, perch_run>>
    /\ UNCHANGED <<now, journal, journal_exists>>
    /\ UNCHANGED perchOther

\* the debug DM was sent: the state is saved and the tick returns
PerchTickNotified ==
    /\ perch_pc = "notifying"
    /\ perch_state' = state_updated(perch_state, perch_run.now)
    /\ perch_run' = Ended(perch_run, "archived")
    /\ bot_state' = finally_finish_work(bot_state)
    /\ perch_pc' = "idle"
    /\ UNCHANGED <<now, journal, journal_exists, memory_archive>>
    /\ UNCHANGED perchOther

\* a handler or a loop writes a line to the journal
Converse(type) ==
    /\ Len(journal) < MaxLines
    /\ now < MaxPerchNow
    /\ journal' = Append(journal, [form |-> "object", type |-> type,
                                   content |-> Len(journal) + 1, ts |-> now])
    /\ journal_exists' = TRUE
    /\ now' = now + 1
    /\ UNCHANGED <<bot_state, perch_pc, perchVars>>
    /\ UNCHANGED perchOther

\* half an hour's half goes by
PerchWait ==
    /\ now + HalfGap <= MaxPerchNow
    /\ now' = now + HalfGap
    /\ UNCHANGED <<bot_state, perch_pc, perchVars, journal, journal_exists>>
    /\ UNCHANGED perchOther

InitPerch == InitPre

\* the foreground path is taken by its calls of the preemption module
NextPerch ==
    \/ \E has_key \in BOOLEAN : PerchTickBegin(has_key)
    \/ \E summary \in {"none", "text"}, stored \in {"stored", "error", "raises"} :
          PerchTickSummarized(summary, stored)
    \/ PerchTickNotified
    \* a message of the conversation, which the tick selects (an assistant
    \* message is selected like a user message), or a tool record, which it skips
    \/ \E type \in {"user_message", "tool_call"} : Converse(type)
    \/ PerchWait
    \/ RequestPreempt("user message")
    \/ ClearPreempt
    \/ CheckStuck

SpecPerch == InitPerch /\ [][NextPerch]_vars

\* the outcomes of a tick that found preemption requested at a yield check
Yielded == {"preempted_before", "preempted_after"}

\* the outcomes of a tick that has returned or raised
Exits == {"no_activity", "gap", "no_entries", "trivial", "archived", "raised"} \cup Yielded

\* C29: perch_tick calls start_work only when it selected journal entries to
\* archive, and whenever it has returned or raised, by whichever exit, the
\* state is idle again.
C29_WorkBracketed ==
    /\ perch_run.started => perch_run.entries # <<>>
    /\ (perch_pc = "idle" /\ perch_run.count > 0) =>
          /\ perch_run.outcome \in Exits
          /\ bot_state.status = IDLE
          /\ bot_state.current_task = None

\* a tick that called start_work ended by an exception of the archive write
\* and the state is idle
C29_Witness ==
    /\ perch_pc = "idle"
    /\ perch_run.started
    /\ perch_run.outcome = "raised"
    /\ bot_state.status = IDLE

\* a tick step that reaches one of the two yield checks
AtYieldCheck ==
    \/ perch_pc = "summarizing" /\ perch_pc' # "summarizing"
    \/ perch_pc = "idle" /\ perch_run' # perch_run /\ perch_run'.started

\* C30: a tick that finds preemption requested at either yield check writes
\* nothing to the archive and leaves the persisted state as it was, and the
\* entries it had selected are selected again from the persisted state.
C30_YieldKeepsEntries ==
    /\ [][(AtYieldCheck /\ bot_state.preempt_requested) =>
             /\ perch_run'.outcome \in Yielded
             /\ perch_pc' = "idle"
             /\ memory_archive' = memory_archive
             /\ perch_state' = perch_state]_vars
    /\ []((perch_pc = "idle" /\ perch_run.outcome \in Yielded) =>
             LET again == _get_journal_entries_since(journal_exists, journal,
                                                     perch_state.last_archive_ts)
             IN  /\ Len(again) >= Len(perch_run.entries)
                 /\ SubSeq(again, 1, Len(perch_run.entries)) = perch_run.entries
                 /\ \A k \in 1..Len(memory_archive) :
                        \A i \in 1..Len(memory_archive[k]) :
                            \A j \in 1..Len(perch_run.entries) :
                                memory_archive[k][i] # perch_run.entries[j])

\* after one conversation was archived, a tick over a later conversation
\* yielded at the second check
C30_Witness ==
    /\ perch_pc = "idle"
    /\ perch_run.outcome = "preempted_after"
    /\ perch_run.entries # <<>>
    /\ Len(memory_archive) = 1
    /\ perch_state.last_archive_ts # None

(***************************************************************************)
(* C37: in every reachable state preempt_requested is true exactly when    *)
(* preempt_reason is set; request_preempt sets both, clear_preempt clears  *)
(* both, and no other operation changes either field.                      *)
(***************************************************************************)
C37_FlagAndReason ==
    /\ [](bot_state.preempt_requested <=> bot_state.preempt_reason # None)
    /\ [][ /\ last_op' = "request_preempt" =>
                /\ bot_state'.preempt_requested
                /\ bot_state'.preempt_reason # None
           /\ last_op' = "clear_preempt" =>
                /\ ~bot_state'.preempt_requested
                /\ bot_state'.preempt_reason = None
           /\ last_op' \notin {"request_preempt", "clear_preempt"} =>
                /\ bot_state'.preempt_requested = bot_state.preempt_requested
                /\ bot_state'.preempt_reason = bot_state.preempt_reason ]_vars

\* a request was made and cleared while the task went on working
C37_Witness ==
    /\ last_op = "clear_preempt"
    /\ bot_state.status = WORKING
    /\ ~bot_state.preempt_requested
    /\ bot_state.preempt_reason = None
    /\ now > 0

(***************************************************************************)
(* C38: the status is idle or working in every state reachable through     *)
(* start_work, finish_work, request_preempt, clear_preempt and             *)
(* check_stuck: WRAPPING_UP is never reached.                              *)
(***************************************************************************)
C38_NeverWrappingUp == bot_state.status \in {IDLE, WORKING}

\* a task that finished with a preemption request pending: the state is idle
C38_Witness ==
    /\ last_op = "finish_work"
    /\ bot_state.status = IDLE
    /\ bot_state.preempt_requested

(***************************************************************************)
(* C36: start_work, finish_work and check_stuck leave preempt_requested    *)
(* and preempt_reason as they were (a watchdog reset keeps a pending       *)
(* request); request_preempt and clear_preempt leave status, current_task  *)
(* and started_at as they were; get_state gives the state itself.  A step  *)
(* of the foreground path changes the status only by the watchdog reset    *)
(* of its check_stuck call, and a step of the background tick never        *)
(* changes the request flag or its reason.                                 *)
(***************************************************************************)
SameRequest(s, after) ==
    /\ after.preempt_requested = s.preempt_requested
    /\ after.preempt_reason = s.preempt_reason

SameWork(s, after) ==
    /\ after.status = s.status
    /\ after.current_task = s.current_task
    /\ after.started_at = s.started_at

ForegroundStep == fg_pc' # fg_pc \/ fg_polls' # fg_polls

BackgroundStep == fg_pc' = fg_pc /\ fg_polls' = fg_polls /\ now' = now

C36_SeparateWriters ==
    /\ [](/\ \A d \in Descriptions : SameRequest(bot_state, start_work(bot_state, d, now))
          /\ SameRequest(bot_state, finish_work(bot_state))
          /\ \A t \in {now, now + STUCK_SECONDS + 1} :
                SameRequest(bot_state, check_stuck(bot_state, t).state)
          /\ \A r \in Reasons : SameWork(bot_state, request_preempt(bot_state, r))
          /\ SameWork(bot_state, clear_preempt(bot_state))
          /\ get_state = bot_state)
    /\ [][ForegroundStep =>
             \/ SameWork(bot_state, bot_state')
             \/ /\ \E h \in Msgs : fg_pc[h] = "not_arrived" /\ fg_pc'[h] = "handling"
                /\ bot_state.status = WORKING
                /\ now - bot_state.started_at[1] > STUCK_SECONDS
                /\ bot_state'.status = IDLE
                /\ SameRequest(bot_state, bot_state')]_vars
    /\ [][BackgroundStep => SameRequest(bot_state, bot_state')]_vars

\* the watchdog of an arriving message reset a tick that is still running,
\* while the request of an earlier message is pending
C36_Witness ==
    /\ bot_state.status = IDLE
    /\ bot_state.preempt_requested
    /\ perch_pc = "summarizing"
    /\ \E h \in Msgs : fg_pc[h] = "handling" /\ fg_polls[h] = 0
    /\ \E h \in Msgs : fg_pc[h] = "polling"

(***************************************************************************)
(* C34: preempt_requested is true for as long as any foreground handler    *)
(* is in its wait-for-idle polling loop, whatever the interleaving of the  *)
(* owner messages that arrived while the status was working.               *)
(***************************************************************************)
C34_RequestKeptWhileWaiting ==
    (\E h \in Msgs : fg_pc[h] = "polling") => bot_state.preempt_requested

(***************************************************************************)
(* The foreground path of one owner message under the scheduling of the    *)
(* event loop: a send that was awaited returns and a sleep that was        *)
(* awaited ends.  Nothing is assumed of the background tick: it may never  *)
(* start, never go on, or hang for ten minutes at an await.                *)
(***************************************************************************)
SpecWait ==
    /\ InitPre
    /\ [][NextHandoff]_vars
    /\ WF_vars(\E r \in Reasons : FgAcked(1, r))
    /\ WF_vars(FgPoll(1))

HandlerRunning(h) == sess_pc[h] \in {"replying", "looping", "editing", "apologizing"}

C32_SessionLifetime ==
    /\ []((~use_claude_code /\ \A h \in Msgs : ~HandlerRunning(h)) =>
             ~session_active(active_sessions, CHANNEL))
    /\ [][~use_claude_code => \A h \in Msgs :
            /\ (sess_pc[h] # "looping" /\ sess_pc'[h] = "looping") =>
                   session_active(active_sessions', CHANNEL)
            /\ (HandlerRunning(h) /\ sess_pc[h] # "replying" /\ ~HandlerRunning(h)') =>
                   ~session_active(active_sessions', CHANNEL)
            /\ (sess_pc[h] = "not_arrived" /\ sess_pc'[h] # "not_arrived"
                  /\ \A g \in Msgs : ~HandlerRunning(g)) =>
                   sess_pc'[h] = "replying"]_vars

\* the first message's loop raised and its handler has returned; the second
\* message came afterwards and is being handled
C32_Witness ==
    /\ ~use_claude_code
    /\ \E h \in Msgs : sess_pc[h] = "done_after_error"
    /\ \E h \in Msgs : sess_pc[h] = "looping"
    /\ session_active(active_sessions, CHANNEL)

(***************************************************************************)
(* C35: when an invocation of either loop has returned, by whichever path, *)
(* the user_message record it appended is followed by an assistant_message *)
(* record of the same invocation; and the journal never holds two          *)
(* user_message records with no assistant_message record between them.     *)
(***************************************************************************)
Closed(p) ==
    \A k \in LinesBy(p) :
        journal[k].type = "user_message" =>
            \E i \in LinesBy(p) : i > k /\ journal[i].type = "assistant_message"

C35_ExchangeClosed ==
    /\ \A p \in LoopIds : loops[p].pc = "done" => Closed(p)
    /\ \A k \in 1..Len(journal) : \A n \in (k + 1)..Len(journal) :
          (journal[k].type = "user_message" /\ journal[n].type = "user_message") =>
              \E i \in (k + 1)..(n - 1) : journal[i].type = "assistant_message"

(***************************************************************************)
(* C31: in the interactive loop every dispatched tool gives one call of    *)
(* on_tool_start followed by one call of on_tool_end for the same tool,    *)
(* with success equal to _tool_succeeded of the tool's result, before the  *)
(* next tool's on_tool_start; the session's tool log has one entry per     *)
(* dispatched tool in dispatch order, at most one of them pending, and     *)
(* none pending when the loop has returned.                                *)
(***************************************************************************)
\* the text of the journal record of the given type for the k-th tool the
\* invocation dispatched
RecordOf(p, k, type) ==
    LET i == CHOOSE i \in LinesBy(p) :
                 journal[i].type = type /\ journal[i].id = loops[p].dispatched[k]
    IN  journal[i].text

MaxStreamLines == 3

READ_TOOL == <<"R", "e", "a", "d">>
BASH_TOOL == <<"B", "a", "s", "h">>

\* content blocks of an assistant message; a tool_use block without a name
\* is read with the name ""
TextBlock == [type |-> "text", name |-> <<>>]
ToolUseBlock(name) == [type |-> "tool_use", name |-> name]

AssistantLine(content) == [form |-> "object", type |-> "assistant", content |-> content]

StreamLineShapes ==
    {[form |-> "text", type |-> "none", content |-> <<>>],
     [form |-> "object", type |-> "result", content |-> <<>>],
     AssistantLine(<<TextBlock>>),
     AssistantLine(<<ToolUseBlock(READ_TOOL)>>),
     AssistantLine(<<ToolUseBlock(BASH_TOOL)>>),
     AssistantLine(<<ToolUseBlock(<<>>)>>),
     AssistantLine(<<TextBlock, ToolUseBlock(READ_TOOL)>>),
     AssistantLine(<<ToolUseBlock(READ_TOOL), ToolUseBlock(BASH_TOOL)>>)}

\* parse_ndjson_line: no event for a line that is no JSON or of another type;
\* an assistant message gives the event of its first text or tool_use block
parse_ndjson_line(line) ==
    IF line.form # "object" THEN None
    ELSE IF line.type = "result" THEN Some([type |-> "result", tool_name |-> <<>>])
    ELSE IF line.type = "assistant"
    THEN LET known == {i \in 1..Len(line.content) :
                          line.content[i].type \in {"text", "tool_use"}}
             first == CHOOSE i \in known : \A j \in known : i <= j
         IN  IF known = {} THEN None
             ELSE IF line.content[first].type = "text"
                  THEN Some([type |-> "assistant", tool_name |-> <<>>])
                  ELSE Some([type |-> "tool_use",
                             tool_name |-> line.content[first].name])
    ELSE IF line.type = "error" THEN Some([type |-> "error", tool_name |-> <<>>])
    ELSE None

\* "if current_tool": neither None nor the empty string
Truthy(current_tool) == current_tool # None /\ current_tool # Some(<<>>)

streamOther == <<preVars, botVars, sessVars, ctxVars, loopVars, textVars, writerVars,
                 reviewVars, perchVars>>

\* the next line of the subprocess: lines without an event are passed over; a
\* tool_use event first ends the current tool, if there is one, and on_tool_end
\* is awaited; other events go to the yield
StreamRead ==
    /\ stream.pc = "reading"
    /\ stream.next <= Len(stream.lines)
    /\ LET event == parse_ndjson_line(stream.lines[stream.next])
       IN  stream' =
             IF event = None THEN [stream EXCEPT !.next = @ + 1]
             ELSE IF event[1].type # "tool_use" THEN [stream EXCEPT !.pc = "yield"]
             ELSE IF Truthy(stream.current_tool)
             THEN [stream EXCEPT !.pc = "starting",
                                 !.session = on_tool_end(@, stream.current_tool[1], TRUE)]
             ELSE [stream EXCEPT !.pc = "yield",
                                 !.current_tool = Some(event[1].tool_name),
                                 !.session = on_tool_start(@, event[1].tool_name)]
    /\ UNCHANGED streamOther

\* on_tool_end returned: current_tool = event.tool_name and on_tool_start
StreamStart ==
    /\ stream.pc = "starting"
    /\ LET event == parse_ndjson_line(stream.lines[stream.next])
       IN  stream' = [stream EXCEPT !.pc = "yield",
                                    !.current_tool = Some(event[1].tool_name),
                                    !.session = on_tool_start(@, event[1].tool_name)]
    /\ UNCHANGED streamOther

\* "yield event": run_claude_code takes the event and asks for the next one
StreamYield ==
    /\ stream.pc = "yield"
    /\ stream' = [stream EXCEPT !.pc = "reading", !.next = @ + 1, !.yielded = @ + 1]
    /\ UNCHANGED streamOther

\* stdout is closed: "clean up final tool", and the stream is consumed
StreamEnd ==
    /\ stream.pc = "reading"
    /\ stream.next > Len(stream.lines)
    /\ stream' = IF Truthy(stream.current_tool)
                 THEN [stream EXCEPT !.pc = "consumed",
                                     !.session = on_tool_end(@, stream.current_tool[1],
                                                             TRUE)]
                 ELSE [stream EXCEPT !.pc = "consumed"]
    /\ UNCHANGED streamOther

StreamInputs(n) == [1..n -> StreamLineShapes]

InitStream ==
    /\ InitPreempt
    /\ InitBotVars
    /\ InitSessFixed
    /\ InitCtxFixed
    /\ InitLoopFixed
    /\ InitTextFixed
    /\ loops = [p \in LoopIds |-> IdleLoop]
    /\ InitReviewFixed
    /\ InitPerchFixed
    /\ \E n \in 0..MaxStreamLines : \E lines \in StreamInputs(n) :
          stream = [NoStream EXCEPT !.lines = lines]

NextStream == StreamRead \/ StreamStart \/ StreamYield \/ StreamEnd

SpecStream == InitStream /\ [][NextStream]_vars

(***************************************************************************)
(* C39: every tool_use event gives one on_tool_start for its tool, and     *)
(* every started tool gets on_tool_end exactly once, right before the next *)
(* tool's on_tool_start or when the stream ends: at any time at most one   *)
(* tool is started and not ended, and none once the stream is consumed.    *)
(***************************************************************************)
\* the tool_use events among the first n lines
ToolUses(n) ==
    SelectSeq([i \in 1..n |-> parse_ndjson_line(stream.lines[i])],
              LAMBDA e : IF e = None THEN FALSE ELSE e[1].type = "tool_use")

StartsIn(calls) == SelectSeq(calls, LAMBDA c : c.kind = "start")
EndsIn(calls) == SelectSeq(calls, LAMBDA c : c.kind = "end")

C39_ToolCallbacksPaired ==
    LET calls == stream.session.calls
        starts == StartsIn(calls)
        ends == EndsIn(calls)
        seen == IF stream.pc \in {"yield", "consumed"}
                THEN ToolUses(IF stream.next <= Len(stream.lines)
                              THEN stream.next ELSE Len(stream.lines))
                ELSE ToolUses(stream.next - 1)
    IN  /\ Len(starts) = Len(seen)
        /\ \A k \in 1..Len(starts) : starts[k].name = seen[k][1].tool_name
        /\ \A i \in 1..Len(calls) :
              IF i % 2 = 1 THEN calls[i].kind = "start"
              ELSE calls[i].kind = "end" /\ calls[i].name = calls[i - 1].name
        /\ Len(starts) - Len(ends) \in {0, 1}
        /\ stream.pc = "consumed" => Len(starts) = Len(ends)

====
